---- MODULE Spec2Model ----
(***************************************************************************)
(* QCO InfoUtils: cpuinfo, meminfo, diskls, osinfo.                        *)
(*                                                                         *)
(* Four single-threaded command-line tools.  Each one is                   *)
(*     main: construct -> parseArgs(argv) -> run() -> return 0             *)
(* wrapped in try/catch(std::exception) -> return 1.                       *)
(*                                                                         *)
(* Specifications of this module:                                          *)
(*   Spec        one invocation of one tool: parseArgs argument by         *)
(*               argument, then run() section by section.                  *)
(*   SpecCpuInfo CpuInfoUtil::getCpuInfo line by line over /proc/cpuinfo,  *)
(*               followed by the return to / catch in main.                *)
(*   SpecNum     the arithmetic of getCpuLoad and of the statvfs block of  *)
(*               getPartitionInfo, in unsigned machine arithmetic.         *)
(*   SpecMem     getMemoryInfo and the used/percentage computation of      *)
(*               MemInfoUtil::printGeneralInfo, with IEEE binary64.        *)
(*                                                                         *)
(* Text is modelled as a sequence of tokens; a colour escape sequence is   *)
(* one token.                                                              *)
(***************************************************************************)
EXTENDS Integers, Sequences, FiniteSets, TLC

VARIABLES
    tool,        \* which of the four programs runs
    argv,        \* argv[1..argc-1]
    argi,        \* parseArgs loop index i (1-based position in argv)
    show,        \* the selector members show_* of the tool's class
    use_colors,  \* member use_colors
    tty,         \* what isatty(STDOUT_FILENO) returned in the constructor
    absent,      \* inputs (files, directories) that cannot be opened in this run
    pc,          \* position of main
    exitCode,    \* process exit status (-1 while running)
    out,         \* standard output, as tokens
    err,         \* standard error, as tokens
    sect,        \* run(): index of the next section to consider
    reached,     \* sections of run() entered so far, in order
    procCpuinfo, \* content of /proc/cpuinfo: a sequence of lines
    cpuLine,     \* getCpuInfo: number of lines consumed by getline
    info,        \* getCpuInfo: the CpuInfo record being filled
    loadavgFile, \* /proc/loadavg: whether it opens, and its tokens
    statFile,    \* /proc/stat: whether it opens, and its lines
    load,        \* the CpuLoad record returned by getCpuLoad
    vfs,         \* what statvfs returned for a mount point
    part,        \* the PartitionInfo record of getPartitionInfo
    memFile,     \* content of /proc/meminfo: a sequence of lines
    memLine,     \* getMemoryInfo: number of lines consumed by getline
    mem,         \* MemoryInfo plus what printGeneralInfo derived from it
    procDir,     \* /proc: whether it opens, and its entries in iteration order
    procIdx,     \* getTopProcesses: number of entries the loop has consumed
    limit,       \* getTopProcesses: the parameter limit
    processes,   \* getTopProcesses: the vector processes
    blockDir,    \* /sys/block: whether it opens, and its entries in iteration order
    diskIdx,     \* getDiskInfo: number of entries the loop has consumed
    disks,       \* getDiskInfo: the vector disks
    mountsFile,  \* /proc/mounts: whether it opens, and its lines
    mountIdx,    \* lines getPartitionInfo has read
    partitions,  \* the std::vector<PartitionInfo> of getPartitionInfo
    osRelease,   \* /etc/os-release: whether it opens, and its lines
    osIdx,       \* lines getDistroInfo has read
    distro,      \* the DistroInfo record of getDistroInfo
    cpuDir,      \* /sys/devices/system/cpu/: whether it opens, and its entries in iteration order
    cpuIdx,      \* number of entries the directory loop has consumed
    frequencies, \* getCpuFrequencies: the vector frequencies
    sockets,     \* printTopologyInfo: the map sockets
    cores,       \* printTopologyInfo: the map cores
    environ,     \* the process environment: getenv
    timezoneFile,\* /etc/timezone
    kernel,      \* what uname, getdomainname and sysinfo return
    sys_info,    \* getSystemInfo: the SystemInfo under construction
    envIdx,      \* getEnvironmentInfo: entries of env_vars handled
    env_info     \* getEnvironmentInfo: the EnvironmentInfo under construction

vars == <<tool, argv, argi, show, use_colors, tty, absent, pc, exitCode,
          out, err, sect, reached, procCpuinfo, cpuLine, info, loadavgFile,
          statFile, load, vfs, part, memFile, memLine, mem,
          procDir, procIdx, limit, processes,
          blockDir, diskIdx, disks,
          mountsFile, mountIdx, partitions,
          osRelease, osIdx, distro,
          cpuDir, cpuIdx, frequencies, sockets, cores,
          environ, timezoneFile, kernel, sys_info, envIdx, env_info>>

cliVars  == <<tool, argv, argi, show, use_colors, tty, absent, out, err, sect, reached>>
cpuVars  == <<procCpuinfo, cpuLine, info>>
numVars  == <<loadavgFile, statFile, load, vfs, part>>
memVars  == <<memFile, memLine, mem>>
procVars == <<procDir, procIdx, limit, processes>>
diskVars == <<blockDir, diskIdx, disks>>
mountVars == <<mountsFile, mountIdx, partitions>>
distroVars == <<osRelease, osIdx, distro>>
sysCpuVars == <<cpuDir, cpuIdx, frequencies, sockets, cores>>
osVars   == <<environ, timezoneFile, kernel, sys_info, envIdx, env_info>>

----------------------------------------------------------------------------
(* Bounds of the model *)

MaxArgs == 2        \* longest argument list explored
MaxLines == 4       \* longest /proc/cpuinfo explored line by line
MaxMemLines == 3    \* longest /proc/meminfo explored line by line
MaxProcs == 3       \* most entries of /proc explored
MaxDisks == 3       \* most entries of /sys/block explored
MaxMounts == 4      \* most lines of /proc/mounts explored
MaxOsLines == 3     \* most lines of /etc/os-release explored
MaxCpuEntries == 3  \* most entries of /sys/devices/system/cpu explored
SizeBits == 22      \* width given to the byte count of a block device (64 in the build)
WordBits == 14      \* width of unsigned long / unsigned long long (64 in the build)

----------------------------------------------------------------------------
(* Small helpers *)

RECURSIVE SeqsUpTo(_, _)
SeqsUpTo(S, n) ==
    IF n = 0 THEN { <<>> }
    ELSE LET shorter == SeqsUpTo(S, n - 1)
         IN  shorter \cup { Append(s, x) : s \in { t \in shorter : Len(t) = n - 1 }, x \in S }

Range(s) == { s[i] : i \in 1..Len(s) }

----------------------------------------------------------------------------
(* namespace Colors: each escape sequence is one token *)

RESET  == "ESC[0m"
BOLD   == "ESC[1m"
RED    == "ESC[31m"
YELLOW == "ESC[33m"
DIM    == "ESC[2m"

AnsiTokens == { RESET, BOLD, RED, YELLOW, DIM }

(* colorize(text, color) *)
colorize_Always(text, color) == <<color>> \o text \o <<RESET>>

colorize(text, color) ==
    IF ~use_colors THEN text ELSE <<color>> \o text \o <<RESET>>

----------------------------------------------------------------------------
(* The command-line surface of the four tools *)

Tools == { "cpuinfo", "meminfo", "diskls", "osinfo" }

(* The else-if arms of parseArgs that set one selector member. *)
OptionTable(t) ==
    CASE t = "cpuinfo" ->
           ("--detailed" :> "show_detailed") @@ ("-d" :> "show_detailed") @@
           ("--frequencies" :> "show_frequencies") @@ ("-f" :> "show_frequencies") @@
           ("--load" :> "show_load") @@ ("-l" :> "show_load") @@
           ("--topology" :> "show_topology") @@ ("-t" :> "show_topology")
      [] t = "meminfo" ->
           ("--processes" :> "show_processes") @@ ("-p" :> "show_processes") @@
           ("--detailed" :> "show_detailed") @@ ("-d" :> "show_detailed") @@
           ("--swap" :> "show_swap") @@ ("-s" :> "show_swap")
      [] t = "diskls" ->
           ("--detailed" :> "show_detailed") @@ ("-d" :> "show_detailed") @@
           ("--usage" :> "show_usage") @@ ("-u" :> "show_usage") @@
           ("--mounts" :> "show_mounts") @@ ("-m" :> "show_mounts") @@
           ("--types" :> "show_types") @@ ("-t" :> "show_types")
      [] t = "osinfo" ->
           ("--detailed" :> "show_detailed") @@ ("-d" :> "show_detailed") @@
           ("--distro" :> "show_distro") @@ ("-r" :> "show_distro") @@
           ("--users" :> "show_users") @@ ("-u" :> "show_users") @@
           ("--environment" :> "show_environment") @@ ("-e" :> "show_environment")

(* The selector members of each class. *)
Selectors(t) == { OptionTable(t)[a] : a \in DOMAIN OptionTable(t) }

HelpFlags    == { "--help", "-h" }
VersionFlags == { "--version", "-V" }
AllFlags     == { "--all", "-a" }
NoColorFlag  == "--no-color"

Recognised(t) ==
    HelpFlags \cup VersionFlags \cup AllFlags \cup { NoColorFlag } \cup DOMAIN OptionTable(t)

(* Arguments no tool recognises. *)
UnknownArgs == { "--bogus" }

ArgAlphabet(t) == Recognised(t) \cup UnknownArgs

(* run(): the sections in call order; the first is unconditional, the     *)
(* others are guarded by the selector named here.                         *)
Sections(t) ==
    CASE t = "cpuinfo" -> << [name |-> "printGeneralInfo",   guard |-> ""],
                             [name |-> "printLoadInfo",      guard |-> "show_load"],
                             [name |-> "printFrequencyInfo", guard |-> "show_frequencies"],
                             [name |-> "printTopologyInfo",  guard |-> "show_topology"] >>
      [] t = "meminfo" -> << [name |-> "printGeneralInfo",   guard |-> ""],
                             [name |-> "printProcesses",     guard |-> "show_processes"] >>
      [] t = "diskls"  -> << [name |-> "printDiskInfo",      guard |-> ""],
                             [name |-> "printUsageInfo",     guard |-> "show_usage"],
                             [name |-> "printMountInfo",     guard |-> "show_mounts"],
                             [name |-> "printTypeInfo",      guard |-> "show_types"] >>
      [] t = "osinfo"  -> << [name |-> "printSystemInfo",      guard |-> ""],
                             [name |-> "printDistroInfo",      guard |-> "show_distro"],
                             [name |-> "printUserInfo",        guard |-> "show_users"],
                             [name |-> "printEnvironmentInfo", guard |-> "show_environment"] >>

(* The files and directories the probes of each tool open. *)
Inputs(t) ==
    CASE t = "cpuinfo" -> { "/proc/cpuinfo", "/proc/loadavg", "/proc/stat", "/sys/devices/system/cpu/" }
      [] t = "meminfo" -> { "/proc/meminfo", "/proc" }
      [] t = "diskls"  -> { "/sys/block/", "/proc/mounts" }
      [] t = "osinfo"  -> { "/etc/os-release", "/etc/timezone" }

----------------------------------------------------------------------------
(* CpuInfoUtil::getCpuInfo                                                 *)
(*                                                                         *)
(* A line of /proc/cpuinfo is a sequence of tokens: a key word such as     *)
(* "processor" or "core id", the colon ":", a blank " " (space or tab),    *)
(* a decimal digit "0".."9", or any other text.                            *)

Blank  == " "
Colon  == ":"
Digits == { "0", "1", "2", "3", "4", "5", "6", "7", "8", "9" }

DigitVal(d) ==
    CASE d = "0" -> 0 [] d = "1" -> 1 [] d = "2" -> 2 [] d = "3" -> 3 [] d = "4" -> 4
      [] d = "5" -> 5 [] d = "6" -> 6 [] d = "7" -> 7 [] d = "8" -> 8 [] d = "9" -> 9

(* line.find(':'): position of the first colon, 0 for npos *)
FindColon(line) ==
    IF \E i \in 1..Len(line) : line[i] = Colon
    THEN CHOOSE i \in 1..Len(line) : line[i] = Colon /\ \A j \in 1..(i - 1) : line[j] # Colon
    ELSE 0

(* key.erase(key.find_last_not_of(" \t") + 1) *)
TrimRight(s) ==
    IF \E i \in 1..Len(s) : s[i] # Blank
    THEN SubSeq(s, 1, CHOOSE i \in 1..Len(s) : s[i] # Blank /\ \A j \in (i + 1)..Len(s) : s[j] = Blank)
    ELSE <<>>

(* value.erase(0, value.find_first_not_of(" \t")) *)
TrimLeft(s) ==
    IF \E i \in 1..Len(s) : s[i] # Blank
    THEN SubSeq(s, CHOOSE i \in 1..Len(s) : s[i] # Blank /\ \A j \in 1..(i - 1) : s[j] = Blank, Len(s))
    ELSE <<>>

(* The decimal prefix std::stoi / std::stod convert: leading blanks are    *)
(* skipped, then the longest run of digits is taken.                       *)
RECURSIVE DigitPrefix(_)
DigitPrefix(s) ==
    IF s # <<>> /\ s[1] \in Digits THEN <<s[1]>> \o DigitPrefix(Tail(s)) ELSE <<>>

RECURSIVE DecimalValue(_)
DecimalValue(ds) ==
    IF ds = <<>> THEN 0
    ELSE 10 * DecimalValue(SubSeq(ds, 1, Len(ds) - 1)) + DigitVal(ds[Len(ds)])

(* std::stoi(value) / std::stod(value): with no convertible prefix they    *)
(* throw std::invalid_argument.                                            *)
Convertible(value) == DigitPrefix(TrimLeft(value)) # <<>>
stoi(value) == DecimalValue(DigitPrefix(TrimLeft(value)))
stod(value) == DecimalValue(DigitPrefix(TrimLeft(value)))

(* The singleton text fields: key in the file |-> member of CpuInfo. *)
TextFields ==
    ("model name" :> "model_name") @@ ("vendor_id" :> "vendor_id") @@
    ("cpu family" :> "cpu_family") @@ ("model" :> "model") @@
    ("stepping" :> "stepping") @@ ("microcode" :> "microcode") @@
    ("cache size" :> "cache_size")

(* CpuInfo info; std::map<std::string,int> core_count; plus the exception  *)
(* in flight, if any ("" for none).                                        *)
NewCpuInfo ==
    [ model_name |-> <<>>, vendor_id |-> <<>>, cpu_family |-> <<>>, model |-> <<>>,
      stepping |-> <<>>, microcode |-> <<>>, cache_size |-> <<>>, flags |-> <<>>,
      cpu_mhz |-> 0, physical_cores |-> 0, logical_cores |-> 0, siblings |-> 0,
      core_count |-> <<>>, exc |-> "" ]

(* istringstream >> flag: the whitespace-separated words of the value *)
RECURSIVE Words(_)
Words(s) ==
    IF s = <<>> THEN <<>>
    ELSE IF s[1] = Blank THEN Words(Tail(s)) ELSE <<s[1]>> \o Words(Tail(s))

(* core_count[value]++ *)
CountCore(cc, value) ==
    IF value \in DOMAIN cc THEN [cc EXCEPT ![value] = @ + 1] ELSE cc @@ (value :> 1)

(* The body of the while (std::getline(file, line)) loop. *)
CpuInfoLine(inf, line) ==
    LET colon == FindColon(line)
        key   == TrimRight(SubSeq(line, 1, colon - 1))
        value == TrimLeft(SubSeq(line, colon + 1, Len(line)))
        k     == IF Len(key) = 1 THEN key[1] ELSE ""
    IN  IF colon = 0 THEN inf
        ELSE IF k \in DOMAIN TextFields /\ inf[TextFields[k]] = <<>>
             THEN [inf EXCEPT ![TextFields[k]] = value]
        ELSE IF k = "cpu MHz" /\ inf.cpu_mhz = 0
             THEN IF Convertible(value) THEN [inf EXCEPT !.cpu_mhz = stod(value)]
                  ELSE [inf EXCEPT !.exc = "invalid_argument"]
        ELSE IF k = "siblings"
             THEN IF Convertible(value) THEN [inf EXCEPT !.siblings = stoi(value)]
                  ELSE [inf EXCEPT !.exc = "invalid_argument"]
        ELSE IF k = "core id"   THEN [inf EXCEPT !.core_count = CountCore(@, value)]
        ELSE IF k = "processor" THEN [inf EXCEPT !.logical_cores = @ + 1]
        ELSE IF k = "flags" /\ inf.flags = <<>> THEN [inf EXCEPT !.flags = Words(value)]
        ELSE inf

RECURSIVE SumCounts(_, _)
SumCounts(cc, keys) ==
    IF keys = {} THEN 0
    ELSE LET k == CHOOSE x \in keys : TRUE IN cc[k] + SumCounts(cc, keys \ {k})

CpuInfoFinish_CountsLines(inf) ==
    LET n == SumCounts(inf.core_count, DOMAIN inf.core_count)
    IN  [inf EXCEPT !.physical_cores = IF n = 0 THEN inf.logical_cores ELSE n]

(* The lines after the loop: physical_cores from core_count. *)
CpuInfoFinish(inf) ==
    LET n == Cardinality(DOMAIN inf.core_count)
    IN  [inf EXCEPT !.physical_cores = IF n = 0 THEN inf.logical_cores ELSE n]

(* getCpuInfo() as a whole: the loop stops at end of file or when a        *)
(* conversion throws.                                                      *)
RECURSIVE CpuInfoLoop(_, _)
CpuInfoLoop(inf, lines) ==
    IF lines = <<>> \/ inf.exc # "" THEN inf
    ELSE CpuInfoLoop(CpuInfoLine(inf, lines[1]), Tail(lines))

getCpuInfo(lines) ==
    LET inf == CpuInfoLoop(NewCpuInfo, lines)
    IN  IF inf.exc # "" THEN inf ELSE CpuInfoFinish(inf)

----------------------------------------------------------------------------
(* The lines of /proc/cpuinfo the model draws its files from *)

LineProcessor   == << "processor", Blank, Colon, Blank, "0" >>
LineCoreId0     == << "core id", Blank, Colon, Blank, "0" >>
LineCoreId1     == << "core id", Blank, Colon, Blank, "1" >>
LineSiblings2   == << "siblings", Colon, Blank, "2" >>
LineSiblings4   == << "siblings", Colon, Blank, "4" >>
LineSiblingsBad == << "siblings", Colon, Blank, "x" >>
LineMHz         == << "cpu MHz", Colon, Blank, "2", "4" >>
LineMHzBad      == << "cpu MHz", Colon, Blank >>
LineModelName   == << "model name", Colon, Blank, "Some", Blank, "CPU" >>
LineEmpty       == << >>

CpuinfoLines ==
    { LineProcessor, LineCoreId0, LineCoreId1, LineSiblings2, LineSiblings4,
      LineSiblingsBad, LineMHzBad, LineEmpty }

(* The two contents of /proc/cpuinfo used when a whole tool run is         *)
(* explored: every number convertible, and one number not convertible.     *)
CpuinfoWellFormed == << LineProcessor, LineModelName, LineMHz, LineSiblings2, LineCoreId0 >>
CpuinfoMalformed  == << LineProcessor, LineSiblingsBad, LineCoreId0 >>

----------------------------------------------------------------------------
(* What one section of run() writes, and whether an exception leaves it.   *)

Readable(f) == f \notin absent

(* printSeparator(title) *)
printSeparator(title) ==
    IF title = "" THEN << "-----" >> ELSE colorize(<<title>>, BOLD) \o << "=====" >>

NoEffect == [ out |-> <<>>, err |-> <<>>, exc |-> "" ]

(* fs::directory_iterator(dir): throws filesystem_error when the           *)
(* directory cannot be opened ("" for no exception).                       *)
directory_iterator(dir) == IF Readable(dir) THEN "" ELSE "filesystem_error"

(* getCpuFrequencies(): the iteration is inside try { } catch (const      *)
(* std::exception&) { }, so the vector is returned empty and nothing is    *)
(* thrown when the directory cannot be opened.                             *)
getCpuFrequencies ==
    [ frequencies |-> IF directory_iterator("/sys/devices/system/cpu/") = "" THEN << "cpu0" >> ELSE <<>>,
      exc |-> "" ]

SectionEffect(t, name) ==
    CASE t = "cpuinfo" /\ name = "printGeneralInfo" ->
           \* getCpuInfo() runs first; an absent file reads as no lines
           LET inf == getCpuInfo(IF Readable("/proc/cpuinfo") THEN procCpuinfo ELSE <<>>)
           IN  IF inf.exc # "" THEN [NoEffect EXCEPT !.exc = inf.exc]
               ELSE [NoEffect EXCEPT !.out = printSeparator("CPU Information")]
      [] t = "cpuinfo" /\ name = "printLoadInfo" ->
           [NoEffect EXCEPT !.out = printSeparator("CPU Load") \o << "Load average:", "CPU usage:" >>]
      [] t = "cpuinfo" /\ name = "printFrequencyInfo" ->
           \* getCpuFrequencies() runs first
           LET r == getCpuFrequencies
           IN  IF r.exc # "" THEN [NoEffect EXCEPT !.exc = r.exc]
               ELSE [NoEffect EXCEPT !.out = printSeparator("CPU Frequency") \o
                       (IF r.frequencies # <<>> THEN << "Current:" >>
                        ELSE colorize(<< "Warning: CPU frequency information not available" >>, YELLOW))]
      [] t = "cpuinfo" /\ name = "printTopologyInfo" ->
           [NoEffect EXCEPT !.out = printSeparator("CPU Topology") \o
               (IF Readable("/sys/devices/system/cpu/") THEN << "Sockets:", "Cores per socket:" >>
                ELSE colorize(<< "Warning: Could not read topology information" >>, YELLOW))]
      [] t = "meminfo" /\ name = "printGeneralInfo" ->
           [NoEffect EXCEPT !.out = printSeparator("Memory Information") \o
               << "Total:" >> \o colorize(<< "(total kB)" >>, DIM) \o
               << "Used:" >>  \o colorize(<< "(used kB, percent%)" >>, DIM) \o
               (IF show["show_swap"] THEN printSeparator("Swap Information") ELSE <<>>)]
      [] t = "meminfo" /\ name = "printProcesses" ->
           [NoEffect EXCEPT
               !.out = printSeparator("Top Memory Consumers") \o << "PID" >>,
               !.err = IF Readable("/proc") THEN <<>>
                       ELSE colorize(<< "Warning: Could not read all process information" >>, YELLOW)]
      [] t = "diskls" /\ name = "printDiskInfo" ->
           [NoEffect EXCEPT
               !.err = IF Readable("/sys/block/") THEN <<>>
                       ELSE colorize(<< "Warning: Could not read all disk information" >>, YELLOW),
               !.out = printSeparator("Disk Information") \o
                       (IF Readable("/sys/block/") THEN colorize(<< "/dev/sda" >>, BOLD)
                        ELSE << "No disks found" >>)]
      [] t = "diskls" /\ name = "printUsageInfo" ->
           [NoEffect EXCEPT !.out = printSeparator("Disk Usage") \o
               (IF Readable("/proc/mounts") THEN << "DEVICE" >> \o printSeparator("")
                ELSE << "No mounted partitions found" >>)]
      [] t = "diskls" /\ name = "printMountInfo" ->
           [NoEffect EXCEPT !.out = printSeparator("Mount Information") \o
               (IF Readable("/proc/mounts") THEN colorize(<< "/dev/sda1" >>, BOLD) ELSE <<>>)]
      [] t = "diskls" /\ name = "printTypeInfo" ->
           [NoEffect EXCEPT
               !.err = IF Readable("/sys/block/") THEN <<>>
                       ELSE colorize(<< "Warning: Could not read all disk information" >>, YELLOW),
               !.out = printSeparator("Disk Types and Filesystems") \o
                       colorize(<< "Disk Types:" >>, BOLD) \o colorize(<< "Filesystems:" >>, BOLD)]
      [] t = "osinfo" /\ name = "printSystemInfo" ->
           [NoEffect EXCEPT !.out = printSeparator("System Information") \o
               (IF Readable("/etc/os-release") THEN << "Operating System:" >> ELSE <<>>) \o
               (IF show["show_detailed"] /\ Readable("/etc/timezone") THEN << "Timezone:" >> ELSE <<>>)]
      [] t = "osinfo" /\ name = "printDistroInfo" ->
           [NoEffect EXCEPT !.out = printSeparator("Distribution Information") \o
               (IF Readable("/etc/os-release") THEN << "Name:" >> ELSE <<>>)]
      [] t = "osinfo" /\ name = "printUserInfo" ->
           [NoEffect EXCEPT !.out = printSeparator("User Information")]
      [] t = "osinfo" /\ name = "printEnvironmentInfo" ->
           [NoEffect EXCEPT !.out = printSeparator("Environment Information")]

----------------------------------------------------------------------------
(* IEEE 754 binary64 ("double"), as far as the tools use it:               *)
(*     (double)a / b * 100.0      and      static_cast<int>(x)             *)
(* for unsigned integers a, b.  A finite positive double is its 53-bit     *)
(* significand m (most significant bit first, m[1] = 1) and the exponent   *)
(* e of its last bit: the value is m * 2^e.  Results are rounded to        *)
(* nearest, ties to even.  Subnormals and overflow are out of reach of     *)
(* the operands used here.                                                 *)

DoubleZero == [ kind |-> "zero",   m |-> <<>>, e |-> 0 ]
DoubleNaN  == [ kind |-> "nan",    m |-> <<>>, e |-> 0 ]
DoubleInf  == [ kind |-> "inf",    m |-> <<>>, e |-> 0 ]

(* Numbers longer than a machine word of the checker are held in limbs   *)
(* of 16 bits, most significant limb first.                                *)
LimbBase == 2 ^ 16

(* the bits of the limbs, most significant first *)
BitsOfLimbs(limbs) ==
    [ i \in 1..(16 * Len(limbs)) |->
        (limbs[((i - 1) \div 16) + 1] \div 2 ^ (15 - ((i - 1) % 16))) % 2 ]

(* position of the first 1 among the bits of the limbs (some limb # 0) *)
FirstOne(limbs) ==
    LET k   == CHOOSE j \in 1..Len(limbs) : limbs[j] # 0 /\ \A h \in 1..(j - 1) : limbs[h] = 0
        top == CHOOSE t \in 1..16 : limbs[k] \div 2 ^ (16 - t) = 1
    IN  16 * (k - 1) + top

(* the number a sequence of at most 16 bits denotes *)
RECURSIVE NatOfBits(_)
NatOfBits(b) ==
    IF b = <<>> THEN 0 ELSE 2 * NatOfBits(SubSeq(b, 1, Len(b) - 1)) + b[Len(b)]

(* bits + 1; one bit longer when every bit was 1 *)
IncBits(b) ==
    IF \A i \in 1..Len(b) : b[i] = 1
    THEN [ i \in 1..(Len(b) + 1) |-> IF i = 1 THEN 1 ELSE 0 ]
    ELSE LET z == CHOOSE i \in 1..Len(b) : b[i] = 0 /\ \A j \in (i + 1)..Len(b) : b[j] = 1
         IN  [ i \in 1..Len(b) |-> IF i < z THEN b[i] ELSE IF i = z THEN 1 ELSE 0 ]

(* Round the significant bits sig (at least 53, sig[1] = 1), followed by  *)
(* a non-zero tail iff sticky, to 53 bits; e53 is the exponent of sig[53]. *)
RoundToDouble(sig, sticky, e53) ==
    LET m     == SubSeq(sig, 1, 53)
        half  == Len(sig) > 53 /\ sig[54] = 1
        below == sticky \/ \E i \in 55..Len(sig) : sig[i] = 1
        up    == half /\ (below \/ m[53] = 1)
        inc   == IncBits(m)
    IN  IF ~up THEN [ kind |-> "finite", m |-> m, e |-> e53 ]
        ELSE IF Len(inc) = 53 THEN [ kind |-> "finite", m |-> inc, e |-> e53 ]
        ELSE [ kind |-> "finite", m |-> SubSeq(inc, 1, 53), e |-> e53 + 1 ]

(* The next n limbs of the expansion of r / b after the binary point      *)
(* (0 <= r < b < 2^15), and the remainder left after them.                *)
RECURSIVE FractionLimbs(_, _, _)
FractionLimbs(r, b, n) ==
    IF n = 0 THEN [ limbs |-> <<>>, rem |-> r ]
    ELSE LET f == FractionLimbs((r * LimbBase) % b, b, n - 1)
         IN  [ f EXCEPT !.limbs = << (r * LimbBase) \div b >> \o @ ]

(* (double)a / b for unsigned integers a < 2^31, b < 2^15, both of which  *)
(* convert to double exactly.  The quotient is expanded to 32 bits before *)
(* and 80 bits after the binary point, which holds the 54 bits the        *)
(* rounding looks at for every a / b >= 2^-15.                            *)
DoubleDiv(a, b) ==
    IF b = 0 THEN (IF a = 0 THEN DoubleNaN ELSE DoubleInf)
    ELSE IF a = 0 THEN DoubleZero
    ELSE LET q     == a \div b
             f     == FractionLimbs(a % b, b, 5)
             limbs == << q \div LimbBase, q % LimbBase >> \o f.limbs
             bits  == BitsOfLimbs(limbs)
             first == FirstOne(limbs)
         IN  RoundToDouble(SubSeq(bits, first, first + 53),
                           f.rem # 0 \/ \E i \in (first + 54)..Len(bits) : bits[i] = 1,
                           -20 - first)

(* limbs * k, one limb longer (k < 2^15) *)
RECURSIVE MulLimbs(_, _, _)
MulLimbs(limbs, k, carry) ==
    IF limbs = <<>> THEN << carry >>
    ELSE LET t == limbs[Len(limbs)] * k + carry
         IN  MulLimbs(SubSeq(limbs, 1, Len(limbs) - 1), k, t \div LimbBase) \o << t % LimbBase >>

(* the 53 bits of a significand as four limbs *)
LimbsOfSignificand(m) ==
    << NatOfBits(SubSeq(m, 1, 5)),   NatOfBits(SubSeq(m, 6, 21)),
       NatOfBits(SubSeq(m, 22, 37)), NatOfBits(SubSeq(m, 38, 53)) >>

(* x * k for a double x and a natural k < 2^15 that is exact as a double *)
DoubleMul(x, k) ==
    IF x.kind # "finite" THEN x
    ELSE LET limbs == MulLimbs(LimbsOfSignificand(x.m), k, 0)
             bits  == BitsOfLimbs(limbs)
             first == FirstOne(limbs)
             sig   == SubSeq(bits, first, Len(bits))
         IN  RoundToDouble(sig, FALSE, x.e + Len(sig) - 53)

(* the number a sequence of at most 31 bits denotes *)
NatOfWord(b) ==
    IF Len(b) <= 16 THEN NatOfBits(b)
    ELSE NatOfBits(SubSeq(b, 1, Len(b) - 16)) * LimbBase + NatOfBits(SubSeq(b, Len(b) - 15, Len(b)))

(* the integral part of a finite double, and whether that is all of it *)
Truncate(x) ==
    IF x.kind = "zero" \/ 53 + x.e <= 0 THEN 0
    ELSE NatOfWord(SubSeq(x.m, 1, 53 + x.e))

IsIntegral(x) ==
    \/ x.kind = "zero"
    \/ x.e >= 0
    \/ \A i \in 1..53 : i > 53 + x.e => x.m[i] = 0

(* x <= n for a finite non-negative double x and a natural n *)
DoubleAtMost(x, n) == Truncate(x) < n \/ (Truncate(x) = n /\ IsIntegral(x))

(* (double)a / b * 100.0 *)
Percentage(a, b) == DoubleMul(DoubleDiv(a, b), 100)

----------------------------------------------------------------------------
(* Unsigned machine integers and formatted extraction                      *)

(* unsigned long and unsigned long long arithmetic is modulo 2^width *)
Modulus == 2 ^ WordBits

(* A token of a line that operator>> cannot read as an unsigned number    *)
(* (or the end of the line): the extraction stores 0 and sets failbit.     *)
NotANumber == -1

(* The value the k-th numeric extraction of one chained                   *)
(* `iss >> a >> b >> ...` stores: once an extraction has failed, every     *)
(* later one of the chain is skipped and leaves its (zero) default.        *)
Extracted(fields, k) ==
    IF k <= Len(fields) /\ \A j \in 1..k : fields[j] # NotANumber
    THEN fields[k] ELSE 0

----------------------------------------------------------------------------
(* CpuInfoUtil::getCpuLoad                                                 *)

(* CpuLoad(): load averages in hundredths *)
NewCpuLoad ==
    [ load1 |-> 0, load5 |-> 0, load15 |-> 0, cpu_usage |-> DoubleZero,
      user |-> 0, nice |-> 0, system |-> 0, idle |-> 0, iowait |-> 0,
      irq |-> 0, softirq |-> 0 ]

getCpuLoad_ForgetsSoftirq(loadavg, stat) ==
    LET avg(k)  == IF loadavg.open THEN Extracted(loadavg.fields, k) ELSE 0
        gotLine == stat.open /\ stat.lines # <<>>
        f(k)    == IF gotLine THEN Extracted(stat.lines[1].fields, k) ELSE 0
        total   == (f(1) + f(2) + f(3) + f(4) + f(5) + f(6)) % Modulus
        used    == (total - f(4) - f(5)) % Modulus
    IN  [ load1 |-> avg(1), load5 |-> avg(2), load15 |-> avg(3),
          user |-> f(1), nice |-> f(2), system |-> f(3), idle |-> f(4),
          iowait |-> f(5), irq |-> f(6), softirq |-> f(7),
          cpu_usage |-> IF gotLine /\ total > 0 THEN Percentage(used, total)
                        ELSE DoubleZero ]

(* The record getCpuLoad returns for the two files.  The first line of    *)
(* /proc/stat is taken whatever its first token is.                        *)
getCpuLoad(loadavg, stat) ==
    LET avg(k)  == IF loadavg.open THEN Extracted(loadavg.fields, k) ELSE 0
        gotLine == stat.open /\ stat.lines # <<>>
        f(k)    == IF gotLine THEN Extracted(stat.lines[1].fields, k) ELSE 0
        total   == (f(1) + f(2) + f(3) + f(4) + f(5) + f(6) + f(7)) % Modulus
        used    == (total - f(4) - f(5)) % Modulus
    IN  [ load1 |-> avg(1), load5 |-> avg(2), load15 |-> avg(3),
          user |-> f(1), nice |-> f(2), system |-> f(3), idle |-> f(4),
          iowait |-> f(5), irq |-> f(6), softirq |-> f(7),
          cpu_usage |-> IF gotLine /\ total > 0 THEN Percentage(used, total)
                        ELSE DoubleZero ]

(* tokens a counter position of the first line of /proc/stat may hold *)
CounterTokens == { 0, 2, Modulus - 1, NotANumber }

(* first tokens of lines of /proc/stat *)
StatLabels == { "cpu", "cpu0", "intr" }

StatFiles ==
    { [ open |-> FALSE, lines |-> <<>> ], [ open |-> TRUE, lines |-> <<>> ] }
    \cup { [ open |-> TRUE, lines |-> << [ label |-> "cpu", fields |-> f ] >> ] :
             f \in [ 1..7 -> CounterTokens ] }
    \cup { [ open |-> TRUE,
             lines |-> << [ label |-> l, fields |-> << 2, 0, 0, 0, 0, 0, 0 >> ],
                          [ label |-> "cpu", fields |-> << 0, 0, 0, 2, 0, 0, u >> ] >> ] :
             l \in StatLabels, u \in { 0, 2 } }

LoadavgFiles ==
    { [ open |-> FALSE, fields |-> <<>> ], [ open |-> TRUE, fields |-> << 52, 58, 59 >> ] }

----------------------------------------------------------------------------
(* DiskLsUtil::getPartitionInfo: the space usage of one emitted row        *)

(* PartitionInfo() *)
NewPartitionInfo ==
    [ total_bytes |-> 0, used_bytes |-> 0, available_bytes |-> 0,
      usage_percent |-> DoubleZero ]

(* if (statvfs(mountpoint, &stat) == 0) { ... } *)
SpaceUsage(st) ==
    IF ~st.ok THEN NewPartitionInfo
    ELSE LET total == (st.f_blocks * st.f_frsize) % Modulus
             avail == (st.f_bavail * st.f_frsize) % Modulus
             used  == (((st.f_blocks - st.f_bfree) % Modulus) * st.f_frsize) % Modulus
         IN  [ total_bytes |-> total, used_bytes |-> used, available_bytes |-> avail,
               usage_percent |-> IF total > 0 THEN Percentage(used, total)
                                 ELSE DoubleZero ]

(* what statvfs may hand back *)
BlockCounts == { 0, 1, 2, Modulus - 1 }
StatvfsResults ==
    [ ok : BOOLEAN, f_blocks : BlockCounts, f_bfree : BlockCounts,
      f_bavail : BlockCounts, f_frsize : { 0, 1, 2, Modulus \div 2 } ]

----------------------------------------------------------------------------
(* MemInfoUtil::getMemoryInfo and the arithmetic of printGeneralInfo       *)

(* the if / else-if chain of getMemoryInfo: key token -> member *)
MemSlot ==
    "MemTotal:" :> "total_kb" @@ "MemAvailable:" :> "available_kb" @@
    "MemFree:" :> "free_kb" @@ "Buffers:" :> "buffers_kb" @@
    "Cached:" :> "cached_kb" @@ "SwapTotal:" :> "swap_total_kb" @@
    "SwapFree:" :> "swap_free_kb" @@ "SwapCached:" :> "swap_cached_kb" @@
    "Shmem:" :> "shmem_kb" @@ "SReclaimable:" :> "sreclaimable_kb" @@
    "SUnreclaim:" :> "sunreclaim_kb"

(* MemoryInfo() *)
NewMemoryInfo ==
    [ slot \in { MemSlot[k] : k \in DOMAIN MemSlot } |-> 0 ]

(* body of the getline loop: if (iss >> key >> value) { ... }; the rest   *)
(* of the line, unit included, is never read                               *)
MemInfoLine(inf, line) ==
    IF line.value # NotANumber /\ line.key \in DOMAIN MemSlot
    THEN [ inf EXCEPT ![MemSlot[line.key]] = line.value ]
    ELSE inf

RECURSIVE getMemoryInfoFrom(_, _)
getMemoryInfoFrom(inf, lines) ==
    IF lines = <<>> THEN inf
    ELSE getMemoryInfoFrom(MemInfoLine(inf, Head(lines)), Tail(lines))

getMemoryInfo(lines) == getMemoryInfoFrom(NewMemoryInfo, lines)

(* static_cast<int>(x): the integral part when it fits an int; for NaN    *)
(* and infinity the behaviour is undefined, and the values builds produce  *)
(* are INT_MIN, 0 and INT_MAX                                              *)
CastToInt(x) ==
    IF x.kind \in { "zero", "finite" } THEN { Truncate(x) }
    ELSE { -2147483647 - 1, 0, 2147483647 }

(* unsigned long used_kb = info.total_kb - info.available_kb *)
UsedKb(inf) == (inf.total_kb - inf.available_kb) % Modulus

(* double used_percentage = (double)used_kb / info.total_kb * 100.0 *)
UsedPercentage(inf) == Percentage(UsedKb(inf), inf.total_kb)

MemLine(k, v, u) == [ key |-> k, value |-> v, unit |-> u ]
MeminfoLines ==
    { MemLine("MemTotal:", 8000, "kB"), MemLine("MemTotal:", 100, "kB"),
      MemLine("MemTotal:", 0, "kB"), MemLine("MemTotal:", NotANumber, ""),
      MemLine("MemAvailable:", 2000, "kB"), MemLine("MemAvailable:", 71, "kB"),
      MemLine("MemAvailable:", 100, "kB"), MemLine("MemFree:", 50, "kB"),
      MemLine("HugePages_Total:", 0, ""),
      MemLine("MemFree:", 100, "MB"), MemLine("Buffers:", 71, "") }

(* what printGeneralInfo has derived: nothing yet *)
NewMemReport == [ info |-> NewMemoryInfo, printed |-> FALSE, used_kb |-> 0,
                  used_percentage |-> DoubleZero, percent |-> 0 ]

----------------------------------------------------------------------------
(* MemInfoUtil::getTopProcesses                                            *)
(*                                                                         *)
(* The text of a directory name, of a line of /proc/<pid>/status and of    *)
(* /proc/<pid>/cmdline is a sequence of characters.                        *)

Tab == "\t"
NUL == "\\0"
NL == "\n"
Whitespace == { " ", Tab }

(* s.substr(pos, n) for pos <= s.size(); s.substr(pos) throws              *)
(* std::out_of_range when pos > s.size()                                   *)
substr(s, pos, n) == SubSeq(s, pos + 1, IF pos + n < Len(s) THEN pos + n ELSE Len(s))

NamePrefix == << "N", "a", "m", "e", ":" >>
RssPrefix  == << "V", "m", "R", "S", "S", ":" >>

(* std::all_of(dirname.begin(), dirname.end(), ::isdigit) *)
AllDigits(dirname) == \A i \in 1..Len(dirname) : dirname[i] \in Digits

(* whether the digits denote a value std::stoi can return (at most         *)
(* INT_MAX = 2147483647); otherwise it throws std::out_of_range            *)
FitsInt(ds) ==
    LET nz == { i \in 1..Len(ds) : ds[i] # "0" }
        z  == IF nz = {} THEN <<>>
              ELSE SubSeq(ds, CHOOSE i \in nz : \A j \in nz : i <= j, Len(ds))
    IN  IF Len(z) < 10 THEN TRUE
        ELSE IF Len(z) > 10 THEN FALSE
        ELSE LET high == DecimalValue(SubSeq(z, 1, 9))
             IN  IF high < 214748364 THEN TRUE
                 ELSE IF high > 214748364 THEN FALSE
                 ELSE DigitVal(z[10]) <= 7

(* iss >> key >> memory_kb on a line that begins with "VmRSS:": the key is *)
(* the text up to the first whitespace, then whitespace is skipped and the *)
(* digits that follow are the number; without a digit the extraction fails *)
ExtractRss(line) ==
    LET ws     == { i \in 1..Len(line) : line[i] \in Whitespace }
        keyEnd == IF ws = {} THEN Len(line) + 1 ELSE CHOOSE i \in ws : \A j \in ws : i <= j
        rest   == SubSeq(line, keyEnd, Len(line))
        nb     == { i \in 1..Len(rest) : rest[i] \notin Whitespace }
        number == IF nb = {} THEN <<>>
                  ELSE DigitPrefix(SubSeq(rest, CHOOSE i \in nb : \A j \in nb : i <= j, Len(rest)))
    IN  [ ok |-> number # <<>>, value |-> DecimalValue(number) ]

(* std::string name; unsigned long memory_kb = 0; plus whether the loop    *)
(* has left through break, and the exception in flight ("" for none)       *)
NewStatus == [ name |-> <<>>, memory_kb |-> 0, done |-> FALSE, exc |-> "" ]

(* body of while (std::getline(status_file, line)) *)
StatusLine(st, line) ==
    IF substr(line, 0, 5) = NamePrefix
    THEN IF Len(line) < 6 THEN [ st EXCEPT !.exc = "out_of_range" ]
         ELSE [ st EXCEPT !.name = SubSeq(line, 7, Len(line)) ]
    ELSE IF substr(line, 0, 6) = RssPrefix
    THEN LET x == ExtractRss(line)
         IN  IF x.ok THEN [ st EXCEPT !.memory_kb = x.value, !.done = TRUE ]
             ELSE [ st EXCEPT !.memory_kb = 0 ]
    ELSE st

RECURSIVE ReadStatus(_, _)
ReadStatus(st, lines) ==
    IF lines = <<>> \/ st.done \/ st.exc # "" THEN st
    ELSE ReadStatus(StatusLine(st, Head(lines)), Tail(lines))

(* std::getline(file, s): the text before the first newline *)
FirstLine(text) ==
    LET nl == { i \in 1..Len(text) : text[i] = NL }
    IN  IF nl = {} THEN text ELSE SubSeq(text, 1, (CHOOSE i \in nl : \A j \in nl : i <= j) - 1)

(* the cmdline block with cmd.substr(0, 40) for cmd.substr(0, 37) *)
CommandLine_KeepsForty(file) ==
    IF ~file.open THEN <<>>
    ELSE LET line == FirstLine(file.text)
             cmd  == [ i \in 1..Len(line) |-> IF line[i] = NUL THEN " " ELSE line[i] ]
         IN  IF Len(cmd) > 40 THEN SubSeq(cmd, 1, 40) \o << ".", ".", "." >> ELSE cmd

(* the reading of /proc/<pid>/cmdline: one line, NUL bytes become spaces,  *)
(* more than 40 characters become the first 37 and "..."                   *)
CommandLine(file) ==
    IF ~file.open THEN <<>>
    ELSE LET line == FirstLine(file.text)
             cmd  == [ i \in 1..Len(line) |-> IF line[i] = NUL THEN " " ELSE line[i] ]
         IN  IF Len(cmd) > 40 THEN SubSeq(cmd, 1, 37) \o << ".", ".", "." >> ELSE cmd

NoRecord == [ push |-> <<>>, exc |-> "" ]

(* One iteration of the loop over fs::directory_iterator("/proc"): the     *)
(* record it pushes (if any) and the exception that leaves it (if any).    *)
ProcessEntry(entry) ==
    IF ~entry.is_directory THEN NoRecord
    ELSE IF ~AllDigits(entry.dirname) THEN NoRecord
    ELSE IF entry.dirname = <<>> THEN [ push |-> <<>>, exc |-> "invalid_argument" ]
    ELSE IF ~FitsInt(entry.dirname) THEN [ push |-> <<>>, exc |-> "out_of_range" ]
    ELSE IF ~entry.status.open THEN NoRecord
    ELSE LET st == ReadStatus(NewStatus, entry.status.lines)
         IN  IF st.exc # "" THEN [ push |-> <<>>, exc |-> st.exc ]
             ELSE IF st.name # <<>> /\ st.memory_kb > 0
             THEN [ push |-> << [ pid |-> DecimalValue(entry.dirname), name |-> st.name,
                                  memory_kb |-> st.memory_kb,
                                  cmd |-> CommandLine(entry.cmdline) ] >>,
                    exc |-> "" ]
             ELSE NoRecord

(* std::sort with the comparator a.memory_kb > b.memory_kb: some           *)
(* arrangement of the records in non-increasing memory_kb; the order of    *)
(* records with equal memory_kb is unspecified                             *)
SortedOrders(records) ==
    { s \in [ 1..Len(records) -> Range(records) ] :
        /\ \A r \in Range(records) :
              Cardinality({ i \in 1..Len(records) : s[i] = r })
                  = Cardinality({ i \in 1..Len(records) : records[i] = r })
        /\ \A i \in 1..(Len(records) - 1) : s[i].memory_kb >= s[i + 1].memory_kb }

(* if (processes.size() > limit) processes.resize(limit), for limit >= 0 *)
Resize(records, lim) ==
    IF Len(records) > lim THEN SubSeq(records, 1, lim) ELSE records

(* entries of /proc, as fs::directory_iterator hands them out *)
NameLine(n) == NamePrefix \o << Tab >> \o n
RssLine(ds) == RssPrefix \o << Tab, " " >> \o ds \o << " ", "k", "B" >>
StateLine   == << "S", "t", "a", "t", "e", ":", Tab, "S" >>
NoFile      == [ open |-> FALSE, text |-> <<>> ]
LongCommand == [ i \in 1..41 |-> IF i = 5 THEN NUL ELSE "x" ]

ProcDirEntry(d, isdir, opens, lines, cmdfile) ==
    [ dirname |-> d, is_directory |-> isdir,
      status |-> [ open |-> opens, lines |-> lines ], cmdline |-> cmdfile ]

ProcInit ==
    ProcDirEntry(<< "1" >>, TRUE, TRUE,
                 << NameLine(<< "i", "n", "i", "t" >>), StateLine, RssLine(<< "3", "0" >>) >>,
                 [ open |-> TRUE, text |-> << "i", "n", "i", "t", NUL, "-", "s" >> ])
ProcShell ==
    ProcDirEntry(<< "7" >>, TRUE, TRUE,
                 << NameLine(<< "s", "h" >>), StateLine, RssLine(<< "5", "0" >>) >>,
                 [ open |-> TRUE, text |-> << "s", "h" >> ])
ProcTwin ==
    ProcDirEntry(<< "4", "2" >>, TRUE, TRUE,
                 << NameLine(<< "d", "b" >>), RssLine(<< "5", "0" >>) >>,
                 [ open |-> TRUE, text |-> LongCommand ])
(* a kernel thread: no VmRSS line, empty cmdline *)
ProcKthread ==
    ProcDirEntry(<< "2" >>, TRUE, TRUE,
                 << NameLine(<< "k", "t" >>), StateLine >>,
                 [ open |-> TRUE, text |-> <<>> ])
(* a process that has set its name to the empty string *)
ProcNoName ==
    ProcDirEntry(<< "8" >>, TRUE, TRUE,
                 << NameLine(<<>>), RssLine(<< "2", "0" >>) >>, NoFile)
(* a process that exited between the listing and the open *)
ProcGone ==
    ProcDirEntry(<< "9" >>, TRUE, FALSE, <<>>, NoFile)
ProcSelf ==
    ProcDirEntry(<< "s", "e", "l", "f" >>, TRUE, FALSE, <<>>, NoFile)
(* a status file whose Name: line ends at the colon *)
ProcBareName ==
    ProcDirEntry(<< "1", "2" >>, TRUE, TRUE,
                 << NamePrefix, RssLine(<< "4", "0" >>) >>, NoFile)
(* a numeric directory name beyond INT_MAX *)
ProcHugePid ==
    ProcDirEntry([ i \in 1..11 |-> "9" ], TRUE, TRUE,
                 << NameLine(<< "x" >>), RssLine(<< "1", "0" >>) >>, NoFile)

(* a command line of exactly 40 bytes, the last one NUL, and a second line *)
FortyCommand == [ i \in 1..43 |-> IF i = 40 THEN NUL ELSE IF i = 41 THEN NL ELSE "y" ]
ProcForty ==
    ProcDirEntry(<< "5" >>, TRUE, TRUE,
                 << NameLine(<< "v", "i" >>), RssLine(<< "2", "0" >>) >>,
                 [ open |-> TRUE, text |-> FortyCommand ])
ProcEntries ==
    { ProcInit, ProcShell, ProcTwin, ProcKthread, ProcNoName, ProcGone, ProcSelf,
      ProcBareName, ProcHugePid, ProcForty }

(* listings of /proc: no entry twice, in any iteration order *)
ProcListings ==
    { s \in SeqsUpTo(ProcEntries, MaxProcs) :
        \A i \in 1..Len(s), j \in 1..Len(s) : i # j => s[i] # s[j] }

(* values of the parameter limit (printProcesses passes 15) *)
Limits == { 0, 1, 2, 15 }

----------------------------------------------------------------------------
(* DiskLsUtil::formatBytes and DiskLsUtil::getDiskInfo                     *)
(*                                                                         *)
(* Names and file contents are sequences of characters.  The byte counts   *)
(* of block devices are unsigned long long; the model gives them           *)
(* SizeBits bits, enough for the sizes it explores and their wraparound.   *)

SizeModulus == 2 ^ SizeBits

CR == "\r"

(* the decimal digits of a natural number, as std::to_string and           *)
(* operator<< write it                                                     *)
DigitChar(d) == CHOOSE c \in Digits : DigitVal(c) = d
RECURSIVE ToChars(_)
ToChars(n) == IF n < 10 THEN << DigitChar(n) >> ELSE ToChars(n \div 10) \o << DigitChar(n % 10) >>

(* s.find(prefix) == 0 *)
StartsWith(s, prefix) == Len(s) >= Len(prefix) /\ SubSeq(s, 1, Len(prefix)) = prefix

(* file >> number for an unsigned or int variable: whitespace is skipped;  *)
(* at end of file nothing is stored ("eof"), without a digit 0 is stored   *)
(* ("fail"), otherwise the digits are converted ("ok")                     *)
ExtractNumber(text) ==
    LET nb   == { i \in 1..Len(text) : text[i] \notin Whitespace \cup { NL, CR } }
        rest == IF nb = {} THEN <<>>
                ELSE SubSeq(text, CHOOSE i \in nb : \A j \in nb : i <= j, Len(text))
        ds   == DigitPrefix(rest)
    IN  IF rest = <<>> THEN [ state |-> "eof", value |-> 0 ]
        ELSE IF ds = <<>> THEN [ state |-> "fail", value |-> 0 ]
        ELSE [ state |-> "ok", value |-> DecimalValue(ds) ]

(* 1024^unit *)
UnitSize(unit) == 1024 ^ unit
UnitNames == << "B", "KB", "MB", "GB", "TB", "PB" >>

(* the unit the while loop of formatBytes stops at: the largest unit <= 5  *)
(* with bytes >= 1024^unit (division of a double by 1024.0 is exact)       *)
UnitOf(bytes) ==
    CHOOSE u \in 0..5 :
        /\ (u > 0 => bytes >= UnitSize(u))
        /\ (u < 5 => bytes < UnitSize(u + 1))

formatBytes_Decimal(bytes) ==
    IF bytes = 0 THEN << "0", " ", "B" >>
    ELSE LET unit   == UnitOf(bytes)
             n      == bytes * 10
             d      == 1000 ^ unit
             q      == n \div d
             r      == n % d
             tenths == IF 2 * r > d \/ (2 * r = d /\ q % 2 = 1) THEN q + 1 ELSE q
         IN  IF unit = 0 THEN ToChars(bytes) \o << " ", UnitNames[1] >>
             ELSE ToChars(tenths \div 10) \o << "." >> \o ToChars(tenths % 10)
                  \o << " ", UnitNames[unit + 1] >>

(* formatBytes(bytes), for bytes * 10 within the integers of the checker:  *)
(* with a unit above B the quotient is written with one decimal, rounded   *)
(* to nearest, ties to even                                                *)
formatBytes(bytes) ==
    IF bytes = 0 THEN << "0", " ", "B" >>
    ELSE LET unit   == UnitOf(bytes)
             n      == bytes * 10
             d      == UnitSize(unit)
             q      == n \div d
             r      == n % d
             tenths == IF 2 * r > d \/ (2 * r = d /\ q % 2 = 1) THEN q + 1 ELSE q
         IN  IF unit = 0 THEN ToChars(bytes) \o << " ", UnitNames[1] >>
             ELSE ToChars(tenths \div 10) \o << "." >> \o ToChars(tenths % 10)
                  \o << " ", UnitNames[unit + 1] >>

(* DiskInfo() *)
NewDiskInfo ==
    [ device |-> <<>>, model |-> <<>>, vendor |-> <<>>, type |-> "", size_bytes |-> 0,
      size_human |-> <<>>, removable |-> FALSE, rotational |-> TRUE, scheduler |-> <<>>,
      queue_depth |-> 0, partitions |-> <<>> ]

DevPrefix == << "/", "d", "e", "v", "/" >>

(* device_name.find("loop") == 0 || device_name.find("ram") == 0 *)
SkippedDevice(name) ==
    StartsWith(name, << "l", "o", "o", "p" >>) \/ StartsWith(name, << "r", "a", "m" >>)

(* what a local variable holds after `file >> local`: at end of file the   *)
(* extraction stores nothing and the local keeps the value before          *)
Stored(file, before) ==
    LET x == ExtractNumber(file.text)
    IN  IF x.state = "eof" THEN before ELSE x.value

(* std::getline(file, s); s.erase(s.find_last_not_of(" \t\n\r") + 1) *)
TrimmedLine(text) ==
    LET line == FirstLine(text)
        keep == { i \in 1..Len(line) : line[i] \notin Whitespace \cup { NL, CR } }
    IN  IF keep = {} THEN <<>>
        ELSE SubSeq(line, 1, CHOOSE i \in keep : \A j \in keep : j <= i)

(* the text between the first '[' and the first ']' of the scheduler line; *)
(* with ']' before '[' the unsigned length end - start - 1 wraps and the   *)
(* rest of the line after '[' is taken; without both, nothing is stored    *)
CurrentScheduler(text) ==
    LET line  == FirstLine(text)
        opens == { i \in 1..Len(line) : line[i] = "[" }
        shuts == { i \in 1..Len(line) : line[i] = "]" }
        start == CHOOSE i \in opens : \A j \in opens : i <= j
        end   == CHOOSE i \in shuts : \A j \in shuts : i <= j
    IN  IF opens = {} \/ shuts = {} THEN <<>>
        ELSE IF end > start THEN SubSeq(line, start + 1, end - 1)
        ELSE SubSeq(line, start + 1, Len(line))

(* for (part_entry : fs::directory_iterator(entry.path())): a failure is   *)
(* caught and ignored                                                      *)
PartitionsOf(entry) ==
    LET IsPart(c) == StartsWith(c, entry.name) /\ c # entry.name
        parts     == SelectSeq(entry.children, IsPart)
    IN  IF ~entry.listable THEN <<>>
        ELSE [ i \in 1..Len(parts) |-> DevPrefix \o parts[i] ]

SizeOf_NoSectorSize(entry, junk) ==
    IF ~entry.size.open THEN [ bytes |-> 0, human |-> <<>> ]
    ELSE LET sectors == Stored(entry.size, junk.sectors)
             bytes   == sectors % SizeModulus
         IN  [ bytes |-> bytes, human |-> formatBytes(bytes) ]

(* the size block: unsigned long long sectors; size_file >> sectors;       *)
(* size_bytes = sectors * 512; `sectors` is not initialised, so after an   *)
(* extraction that stores nothing its value is indeterminate (junk)        *)
SizeOf(entry, junk) ==
    IF ~entry.size.open THEN [ bytes |-> 0, human |-> <<>> ]
    ELSE LET sectors == Stored(entry.size, junk.sectors)
             bytes   == (sectors * 512) % SizeModulus
         IN  [ bytes |-> bytes, human |-> formatBytes(bytes) ]

(* the type chain with the rotational test before the name test *)
TypeOf_RotationalFirst(device_name, rotational) ==
    IF rotational THEN "HDD"
    ELSE IF StartsWith(device_name, << "n", "v", "m", "e" >>) THEN "NVMe"
    ELSE "SSD"

(* Determine disk type *)
TypeOf(device_name, rotational) ==
    IF StartsWith(device_name, << "n", "v", "m", "e" >>) THEN "NVMe"
    ELSE IF ~rotational THEN "SSD"
    ELSE "HDD"

(* The DiskInfo the loop body builds for an entry that is not skipped. *)
DiskOf(entry, junk) ==
    LET removable  == IF entry.removable.open
                      THEN Stored(entry.removable, junk.removable_flag) = 1
                      ELSE FALSE
        rotational == IF entry.rotational.open
                      THEN Stored(entry.rotational, junk.rotational_flag) = 1
                      ELSE TRUE
    IN  [ device      |-> DevPrefix \o entry.name,
          size_bytes  |-> SizeOf(entry, junk).bytes,
          size_human  |-> SizeOf(entry, junk).human,
          model       |-> IF entry.model.open THEN TrimmedLine(entry.model.text) ELSE <<>>,
          vendor      |-> IF entry.vendor.open THEN TrimmedLine(entry.vendor.text) ELSE <<>>,
          removable   |-> removable,
          rotational  |-> rotational,
          type        |-> TypeOf(entry.name, rotational),
          scheduler   |-> IF entry.scheduler.open THEN CurrentScheduler(entry.scheduler.text)
                          ELSE <<>>,
          queue_depth |-> IF entry.nr_requests.open THEN Stored(entry.nr_requests, 0) ELSE 0,
          partitions  |-> PartitionsOf(entry) ]

DiskEntry_KeepsRam(entry, junk) ==
    IF StartsWith(entry.name, << "l", "o", "o", "p" >>) THEN <<>> ELSE << DiskOf(entry, junk) >>

(* one iteration of the loop of getDiskInfo: what it pushes *)
DiskEntry(entry, junk) ==
    IF SkippedDevice(entry.name) THEN <<>> ELSE << DiskOf(entry, junk) >>

(* values an uninitialised local may hold *)
Junk == [ sectors : { 0, 3 }, removable_flag : { 0, 1 }, rotational_flag : { 0, 1, 7 } ]

(* entries of /sys/block with the files below them *)
BlockDirEntry(n, size, model, vendor, removable, rotational, scheduler, nr, listable, kids) ==
    [ name |-> n, size |-> size, model |-> model, vendor |-> vendor,
      removable |-> removable, rotational |-> rotational, scheduler |-> scheduler,
      nr_requests |-> nr, listable |-> listable, children |-> kids ]

DiskSda ==
    BlockDirEntry(<< "s", "d", "a" >>, [ open |-> TRUE, text |-> << "2", "0", "4", "8", NL >> ],
                  [ open |-> TRUE, text |-> << "D", "i", "s", "k", " ", "A", " ", NL >> ],
                  [ open |-> TRUE, text |-> << "A", "T", "A", NL >> ], [ open |-> TRUE, text |-> << "0", NL >> ], [ open |-> TRUE, text |-> << "1", NL >> ],
                  [ open |-> TRUE, text |-> << "n", "o", "o", "p", " ", "[", "m", "q", "]", " ", "k", "y", "b", "e", "r", NL >> ],
                  [ open |-> TRUE, text |-> << "6", "4", NL >> ], TRUE,
                  << << "s", "d", "a", "1" >>, << "q", "u", "e", "u", "e" >>, << "s", "d", "a", "2" >> >>)
DiskNvme ==
    BlockDirEntry(<< "n", "v", "m", "e", "0", "n", "1" >>, [ open |-> TRUE, text |-> << "4", "0", "9", "6", NL >> ],
                  NoFile, NoFile, [ open |-> TRUE, text |-> << "0", NL >> ],
                  [ open |-> TRUE, text |-> << "1", NL >> ],
                  [ open |-> TRUE, text |-> << "[", "n", "o", "n", "e", "]", NL >> ], NoFile, TRUE,
                  << << "n", "v", "m", "e", "0", "n", "1", "p", "1" >> >>)
DiskLoop0 ==
    BlockDirEntry(<< "l", "o", "o", "p", "0" >>, [ open |-> TRUE, text |-> << "0", NL >> ], NoFile, NoFile, NoFile, NoFile, NoFile,
                  NoFile, TRUE, <<>>)
DiskRam0 ==
    BlockDirEntry(<< "r", "a", "m", "0" >>, NoFile, NoFile, NoFile, NoFile, NoFile, NoFile, NoFile,
                  FALSE, <<>>)
(* a device without any of the files *)
DiskBare ==
    BlockDirEntry(<< "s", "d", "b" >>, NoFile, NoFile, NoFile, NoFile, NoFile, NoFile, NoFile,
                  FALSE, <<>>)
(* files that open and are empty *)
DiskEmptyFiles ==
    BlockDirEntry(<< "s", "d", "c" >>, [ open |-> TRUE, text |-> <<>> ], NoFile, NoFile, [ open |-> TRUE, text |-> <<>> ], [ open |-> TRUE, text |-> << NL >> ], [ open |-> TRUE, text |-> <<>> ], NoFile, TRUE, <<>>)
(* a sector count whose product with 512 wraps *)
DiskHuge ==
    BlockDirEntry(<< "s", "d", "d" >>, [ open |-> TRUE, text |-> ToChars(SizeModulus \div 512 + 1) ],
                  NoFile, NoFile, NoFile, [ open |-> TRUE, text |-> << "0", NL >> ],
                  [ open |-> TRUE, text |-> << "]", " ", "x", " ", "[", "b", "f", "q", NL >> ],
                  NoFile, TRUE, <<>>)
(* a size file without a number *)
DiskNoNumber ==
    BlockDirEntry(<< "s", "r", "0" >>, [ open |-> TRUE, text |-> << "a", "b", "c", NL >> ], NoFile, NoFile, NoFile, NoFile, NoFile,
                  NoFile, TRUE, <<>>)

BlockEntries ==
    { DiskSda, DiskNvme, DiskLoop0, DiskRam0, DiskBare, DiskEmptyFiles, DiskHuge,
      DiskNoNumber }

(* listings of /sys/block: no entry twice, in any iteration order *)
BlockListings ==
    { s \in SeqsUpTo(BlockEntries, MaxDisks) :
        \A i \in 1..Len(s), j \in 1..Len(s) : i # j => s[i] # s[j] }

----------------------------------------------------------------------------
(* DiskLsUtil::getPartitionInfo: the rows of /proc/mounts                  *)
(*                                                                         *)
(* A line is the sequence of its whitespace-separated fields, each field   *)
(* a sequence of characters.                                               *)

(* iss >> device >> mountpoint >> filesystem >> options succeeds *)
FourFields(line) == Len(line) >= 4

SpecialFilesystems ==
    { << "p", "r", "o", "c" >>, << "s", "y", "s", "f", "s" >>,
      << "d", "e", "v", "t", "m", "p", "f", "s" >>, << "t", "m", "p", "f", "s" >> }

(* the two `continue` statements, with the special filesystems forgotten *)
SkippedMount_DeviceOnly(line) == ~StartsWith(line[1], DevPrefix)

(* the two `continue` statements of a line with four fields *)
SkippedMount(line) ==
    IF ~StartsWith(line[1], DevPrefix) THEN TRUE
    ELSE line[3] \in SpecialFilesystems

(* PartitionInfo part; the four assignments; the statvfs block *)
PartitionOf(line, st) ==
    LET usage == SpaceUsage(st)
    IN  [ device          |-> line[1],
          mountpoint      |-> line[2],
          filesystem      |-> line[3],
          mount_options   |-> line[4],
          total_bytes     |-> usage.total_bytes,
          used_bytes      |-> usage.used_bytes,
          available_bytes |-> usage.available_bytes,
          usage_percent   |-> usage.usage_percent ]

(* one iteration of while (std::getline(mounts_file, line)) *)
MountLine(line, st) ==
    IF ~FourFields(line) THEN <<>>
    ELSE IF SkippedMount(line) THEN <<>>
    ELSE << PartitionOf(line, st) >>

(* lines of /proc/mounts: device, mount point, filesystem, options, 0 0 *)
MountRow(device, mountpoint, filesystem) ==
    << device, mountpoint, filesystem, << "r", "w" >>, << "0" >>, << "0" >> >>
MountSda1 ==
    MountRow(<< "/", "d", "e", "v", "/", "s", "d", "a", "1" >>, << "/" >>, << "e", "x", "t", "4" >>)
MountProc ==
    MountRow(<< "p", "r", "o", "c" >>, << "/", "p", "r", "o", "c" >>, << "p", "r", "o", "c" >>)
MountSdb2 ==
    MountRow(<< "/", "d", "e", "v", "/", "s", "d", "b", "2" >>, << "/", "h", "o", "m", "e" >>,
             << "x", "f", "s" >>)
MountTmpfs ==
    MountRow(<< "t", "m", "p", "f", "s" >>, << "/", "r", "u", "n" >>, << "t", "m", "p", "f", "s" >>)
MountRamTmpfs ==
    MountRow(<< "/", "d", "e", "v", "/", "r", "a", "m", "1" >>, << "/", "m", "n", "t" >>,
             << "t", "m", "p", "f", "s" >>)
MountNfs ==
    MountRow(<< "n", "a", "s", ":", "/", "d", "e", "v", "/" >>, << "/", "s", "r", "v" >>,
             << "n", "f", "s" >>)
MountBlank == << >>
MountLines ==
    { MountSda1, MountProc, MountSdb2, MountTmpfs, MountRamTmpfs, MountNfs, MountBlank }

MountsFiles == [ open : BOOLEAN, lines : SeqsUpTo(MountLines, MaxMounts) ]

(* what statvfs hands back for the mount points of those lines *)
MountStatvfs ==
    { [ ok |-> FALSE, f_blocks |-> 0, f_bfree |-> 0, f_bavail |-> 0, f_frsize |-> 0 ],
      [ ok |-> TRUE, f_blocks |-> 2, f_bfree |-> 1, f_bavail |-> 1, f_frsize |-> 2 ] }

----------------------------------------------------------------------------
(* OsInfoUtil::getDistroInfo                                               *)
(*                                                                         *)
(* A line of /etc/os-release is a sequence of characters.                  *)

Quote == "\""
Equals == "="

(* line.find('='): 0 stands for npos *)
FindEquals(line) ==
    LET at == { i \in 1..Len(line) : line[i] = Equals }
    IN  IF at = {} THEN 0 ELSE CHOOSE i \in at : \A j \in at : i <= j

(* the else-if chain: the keys getDistroInfo stores, and their members *)
DistroKeys ==
    << [ key |-> << "N", "A", "M", "E" >>, field |-> "name" ],
       [ key |-> << "V", "E", "R", "S", "I", "O", "N" >>, field |-> "version" ],
       [ key |-> << "I", "D" >>, field |-> "id" ],
       [ key |-> << "I", "D", "_", "L", "I", "K", "E" >>, field |-> "id_like" ],
       [ key |-> << "V", "E", "R", "S", "I", "O", "N", "_", "C", "O", "D", "E", "N", "A", "M", "E" >>, field |-> "version_codename" ],
       [ key |-> << "V", "E", "R", "S", "I", "O", "N", "_", "I", "D" >>, field |-> "version_id" ],
       [ key |-> << "P", "R", "E", "T", "T", "Y", "_", "N", "A", "M", "E" >>, field |-> "pretty_name" ],
       [ key |-> << "H", "O", "M", "E", "_", "U", "R", "L" >>, field |-> "home_url" ],
       [ key |-> << "S", "U", "P", "P", "O", "R", "T", "_", "U", "R", "L" >>, field |-> "support_url" ],
       [ key |-> << "B", "U", "G", "_", "R", "E", "P", "O", "R", "T", "_", "U", "R", "L" >>, field |-> "bug_report_url" ] >>
DistroFields == { DistroKeys[i].field : i \in 1..Len(DistroKeys) }

(* DistroInfo() = default: every member is the empty string *)
NewDistroInfo == [ f \in DistroFields |-> << >> ]

(* if (value.front() == '"' && value.back() == '"')                        *)
(*     value = value.substr(1, value.length() - 2);                        *)
(* for a value that is not empty; for the value of one character the       *)
(* count wraps and substr(1, npos) is the empty string                     *)
RemoveQuotes(value) ==
    IF value[1] = Quote /\ value[Len(value)] = Quote
    THEN SubSeq(value, 2, Len(value) - 1)
    ELSE value

(* the else-if chain on key *)
StoreDistro(d, key, value) ==
    LET hit == { i \in 1..Len(DistroKeys) : DistroKeys[i].key = key }
    IN  IF hit = {} THEN d
        ELSE [ d EXCEPT ![DistroKeys[CHOOSE i \in hit : TRUE].field] = value ]

(* one iteration of while (std::getline(os_release, line)).  An empty      *)
(* value reaches value.front() on an empty string, which is undefined: a   *)
(* build with library assertions aborts, another reads the terminating     *)
(* '\0' and leaves the value alone.  aborts tells which build this is.     *)
DistroLine(d, line, aborts) ==
    LET equals == FindEquals(line)
        key    == SubSeq(line, 1, equals - 1)
        value  == SubSeq(line, equals + 1, Len(line))
    IN  IF equals = 0 THEN [ info |-> d, abort |-> FALSE ]
        ELSE IF value = << >>
             THEN IF aborts THEN [ info |-> d, abort |-> TRUE ]
                  ELSE [ info |-> StoreDistro(d, key, value), abort |-> FALSE ]
        ELSE [ info |-> StoreDistro(d, key, RemoveQuotes(value)), abort |-> FALSE ]

(* lines of /etc/os-release *)
OsName == << "N", "A", "M", "E", "=", "\"", "U", "b", "u", "n", "t", "u", "\"" >>   \* NAME="Ubuntu"
OsVersionId == << "V", "E", "R", "S", "I", "O", "N", "_", "I", "D", "=", "2", "2", ".", "0", "4" >>   \* VERSION_ID=22.04
OsIdEmpty == << "I", "D", "=" >>   \* ID=
OsIdPlain == << "I", "D", "=", "u", "b", "u", "n", "t", "u" >>   \* ID=ubuntu
OsIdOpenQuote == << "I", "D", "=", "\"", "x" >>   \* ID="x
OsIdTwoQuotes == << "I", "D", "=", "\"", "\"" >>   \* ID=""
OsIdOneQuote == << "I", "D", "=", "\"" >>   \* ID="
OsUnknownKey == << "F", "O", "O", "=", "\"", "b", "a", "r", "\"" >>   \* FOO="bar"
OsComment == << "#", " ", "o", "s" >>   \* # os
OsInnerQuote == << "V", "E", "R", "S", "I", "O", "N", "=", "\"", "a", "\"", "b", "\"" >>   \* VERSION="a"b"
OsDoubleQuoted == << "N", "A", "M", "E", "=", "\"", "\"", "x", "\"", "\"" >>   \* NAME=""x""
OsLikeEmpty == << "I", "D", "_", "L", "I", "K", "E", "=" >>   \* ID_LIKE=
OsReleaseLines ==
    { OsName, OsVersionId, OsIdEmpty, OsIdPlain,
      OsIdOpenQuote, OsIdTwoQuotes, OsIdOneQuote, OsUnknownKey,
      OsComment, OsInnerQuote, OsDoubleQuoted, OsLikeEmpty }
OsReleaseFiles == [ open : BOOLEAN, lines : SeqsUpTo(OsReleaseLines, MaxOsLines) ]

----------------------------------------------------------------------------
(* The entries of /sys/devices/system/cpu/ and getCpuFrequencies entry by  *)
(* entry                                                                   *)

(* dirname.find("cpu") != 0 || !std::isdigit(dirname[3]), without the      *)
(* isdigit test                                                            *)
SkippedCpuEntry_AnyCpuName(dirname) == ~StartsWith(dirname, << "c", "p", "u" >>)

(* dirname.find("cpu") != 0 || !std::isdigit(dirname[3]): dirname[3] of    *)
(* the name "cpu" is the terminating '\0', no digit                        *)
SkippedCpuEntry(dirname) ==
    IF ~StartsWith(dirname, << "c", "p", "u" >>) THEN TRUE
    ELSE IF Len(dirname) < 4 THEN TRUE
    ELSE dirname[4] \notin Digits

(* CpuFrequency() *)
NewCpuFrequency ==
    [ current_mhz |-> DoubleZero, min_mhz |-> DoubleZero, max_mhz |-> DoubleZero,
      governor |-> << >>, driver |-> << >> ]

(* if (f.is_open()) { f >> khz; mhz = khz / 1000.0; } *)
MhzOf(file) == IF file.open THEN DoubleDiv(file.khz, 1000) ELSE DoubleZero

(* the record filled from the files of <entry>/cpufreq *)
FrequencyOf(entry) ==
    [ current_mhz |-> MhzOf(entry.scaling_cur_freq),
      min_mhz     |-> MhzOf(entry.scaling_min_freq),
      max_mhz     |-> MhzOf(entry.scaling_max_freq),
      governor    |-> IF entry.scaling_governor.open THEN entry.scaling_governor.line ELSE << >>,
      driver      |-> IF entry.scaling_driver.open THEN entry.scaling_driver.line ELSE << >> ]

(* one iteration of the loop of getCpuFrequencies: the records to push,    *)
(* and whether the loop ends with break                                    *)
FrequencyEntry(entry) ==
    IF SkippedCpuEntry(entry.name) THEN [ push |-> << >>, stop |-> FALSE ]
    ELSE IF ~entry.cpufreq THEN [ push |-> << >>, stop |-> FALSE ]
    ELSE [ push |-> << FrequencyOf(entry) >>, stop |-> TRUE ]

(* entries of the directory: name, whether <entry>/cpufreq exists, the     *)
(* files under it, and the two files under <entry>/topology                *)
NoKhz == [ open |-> FALSE, khz |-> 0 ]
Khz(n) == [ open |-> TRUE, khz |-> n ]
NoText == [ open |-> FALSE, line |-> << >> ]
NoId == [ open |-> FALSE, id |-> 0 ]
Id(n) == [ open |-> TRUE, id |-> n ]
CpuDirEntry(name, cpufreq, cur, pkg, core) ==
    [ name |-> name, cpufreq |-> cpufreq,
      scaling_cur_freq |-> IF cpufreq THEN Khz(cur) ELSE NoKhz,
      scaling_min_freq |-> IF cpufreq THEN Khz(800000) ELSE NoKhz,
      scaling_max_freq |-> NoKhz,
      scaling_governor |-> IF cpufreq THEN [ open |-> TRUE, line |-> << "o", "n", "d", "e", "m", "a", "n", "d" >> ] ELSE NoText,
      scaling_driver   |-> NoText,
      physical_package_id |-> pkg, core_id |-> core ]
Cpu0    == CpuDirEntry(<< "c", "p", "u", "0" >>, TRUE, 2400000, Id(0), Id(0))
Cpu1    == CpuDirEntry(<< "c", "p", "u", "1" >>, TRUE, 1200000, Id(0), Id(1))
Cpu2    == CpuDirEntry(<< "c", "p", "u", "2" >>, FALSE, 0, Id(1), Id(0))
Cpu3    == CpuDirEntry(<< "c", "p", "u", "3" >>, FALSE, 0, NoId, NoId)
Cpu10   == CpuDirEntry(<< "c", "p", "u", "1", "0" >>, TRUE, 3000000, Id(1), Id(2))
CpuFreq == CpuDirEntry(<< "c", "p", "u", "f", "r", "e", "q" >>, FALSE, 0, NoId, NoId)
CpuIdle == CpuDirEntry(<< "c", "p", "u", "i", "d", "l", "e" >>, TRUE, 1000, Id(2), Id(2))
Online  == CpuDirEntry(<< "o", "n", "l", "i", "n", "e" >>, FALSE, 0, NoId, NoId)
CpuDirEntries == { Cpu0, Cpu1, Cpu2, Cpu3, Cpu10, CpuFreq, CpuIdle, Online }

(* listings of the directory: no entry twice, in any iteration order *)
CpuDirListings ==
    { s \in SeqsUpTo(CpuDirEntries, MaxCpuEntries) :
        \A i \in 1..Len(s), j \in 1..Len(s) : i # j => s[i] # s[j] }

----------------------------------------------------------------------------
(* OsInfoUtil::getSystemInfo and OsInfoUtil::getEnvironmentInfo            *)
(*                                                                         *)
(* getenv(name) is a null pointer when the variable is unset and its text, *)
(* which may be empty, when it is set.                                     *)

Unset       == [ set |-> FALSE, value |-> << >> ]
SetTo(text) == [ set |-> TRUE,  value |-> text ]

env_vars == << "PATH", "LANG", "EDITOR", "PAGER", "BROWSER",
               "DESKTOP_SESSION", "XDG_CURRENT_DESKTOP", "WINDOWMANAGER" >>

EnvNames == Range(env_vars) \cup { "TZ" }

(* the text a variable of the modelled environments holds when not empty *)
EnvText(name) ==
    CASE name = "PATH"                -> << "/", "b", "i", "n" >>
      [] name = "LANG"                -> << "C" >>
      [] name = "EDITOR"              -> << "v", "i" >>
      [] name = "PAGER"               -> << "l", "e", "s", "s" >>
      [] name = "BROWSER"             -> << "w", "3", "m" >>
      [] name = "DESKTOP_SESSION"     -> << "x", "f", "c", "e" >>
      [] name = "XDG_CURRENT_DESKTOP" -> << "G", "N", "O", "M", "E" >>
      [] name = "WINDOWMANAGER"       -> << "i", "3" >>
      [] name = "TZ"                  -> << "U", "T", "C" >>

NewEnvironmentInfo ==
    [ path |-> << >>, lang |-> << >>, editor |-> << >>, pager |-> << >>,
      browser |-> << >>, desktop_session |-> << >>, display_manager |-> << >>,
      window_manager |-> << >> ]

(* the body of the loop over env_vars, for one variable *)
EnvVar(e, var, got) ==
    IF ~got.set THEN e
    ELSE CASE var = "PATH"                -> [e EXCEPT !.path = got.value]
           [] var = "LANG"                -> [e EXCEPT !.lang = got.value]
           [] var = "EDITOR"              -> [e EXCEPT !.editor = got.value]
           [] var = "PAGER"               -> [e EXCEPT !.pager = got.value]
           [] var = "BROWSER"             -> [e EXCEPT !.browser = got.value]
           [] var = "DESKTOP_SESSION"     -> [e EXCEPT !.desktop_session = got.value]
           [] var = "XDG_CURRENT_DESKTOP" -> [e EXCEPT !.window_manager = got.value]
           [] var = "WINDOWMANAGER"       ->
                IF e.window_manager = << >> THEN [e EXCEPT !.window_manager = got.value]
                ELSE e
           [] OTHER -> e

NewSystemInfo ==
    [ os_name |-> << >>, os_version |-> << >>, os_id |-> << >>, os_codename |-> << >>,
      kernel_name |-> << >>, kernel_release |-> << >>, kernel_version |-> << >>,
      architecture |-> << >>, hostname |-> << >>, domain_name |-> << >>,
      uptime_seconds |-> 0, boot_time |-> << >>, timezone |-> << >> ]

(* what uname fills in when it returns 0 *)
Utsname ==
    [ sysname |-> << "L", "i", "n", "u", "x" >>, release |-> << "6", ".", "1" >>,
      version |-> << "#", "1" >>, machine |-> << "x", "8", "6" >>,
      nodename |-> << "h", "o", "s", "t" >> ]

(* the timezone block: the file when it opens, TZ only when it does not *)
TimezoneOf(file, tz) ==
    IF file.open THEN FirstLine(file.text)
    ELSE IF tz.set THEN tz.value
    ELSE << >>

(* getSystemInfo as a function of what the calls and the file give *)
SystemInfoOf(k, file, tz) ==
    [ NewSystemInfo EXCEPT
        !.kernel_name    = IF k.uname THEN Utsname.sysname  ELSE << >>,
        !.kernel_release = IF k.uname THEN Utsname.release  ELSE << >>,
        !.kernel_version = IF k.uname THEN Utsname.version  ELSE << >>,
        !.architecture   = IF k.uname THEN Utsname.machine  ELSE << >>,
        !.hostname       = IF k.uname THEN Utsname.nodename ELSE << >>,
        !.domain_name    = IF k.getdomainname THEN << "l", "a", "n" >> ELSE << >>,
        !.uptime_seconds = IF k.sysinfo THEN k.uptime ELSE 0,
        !.timezone       = TimezoneOf(file, tz) ]

(* /etc/timezone: missing, empty, one line, a blank first line, two lines *)
TimezoneFiles ==
    { NoFile,
      [ open |-> TRUE, text |-> << >> ],
      [ open |-> TRUE, text |-> << "E", "t", "c", "/", "U", "T", "C", NL >> ],
      [ open |-> TRUE, text |-> << NL, "C", "E", "T", NL >> ],
      [ open |-> TRUE, text |-> << "C", "E", "T", NL, "x", NL >> ] }

EnvValues(name) == { Unset, SetTo(<< >>), SetTo(EnvText(name)) }

NoEnvironment == [ n \in EnvNames |-> Unset ]

Kernels == [ uname : BOOLEAN, getdomainname : BOOLEAN, sysinfo : BOOLEAN, uptime : { 90 } ]

----------------------------------------------------------------------------
(* Values of the variables a specification does not use *)

IdleCli == /\ tool = "cpuinfo" /\ argv = <<>> /\ argi = 1 /\ tty = FALSE
           /\ use_colors = FALSE /\ absent = {}
           /\ show = [ s \in Selectors("cpuinfo") |-> FALSE ]
           /\ out = <<>> /\ err = <<>> /\ sect = 1 /\ reached = <<>>
IdleCpu == procCpuinfo = <<>> /\ cpuLine = 0 /\ info = NewCpuInfo
IdleNum == /\ loadavgFile = [ open |-> FALSE, fields |-> <<>> ]
           /\ statFile = [ open |-> FALSE, lines |-> <<>> ]
           /\ load = NewCpuLoad
           /\ vfs = [ ok |-> FALSE, f_blocks |-> 0, f_bfree |-> 0, f_bavail |-> 0, f_frsize |-> 0 ]
           /\ part = NewPartitionInfo
IdleMem == memFile = <<>> /\ memLine = 0 /\ mem = NewMemReport
IdleProc == /\ procDir = [ open |-> FALSE, entries |-> <<>> ]
            /\ procIdx = 0 /\ limit = 0 /\ processes = <<>>
IdleDisk == /\ blockDir = [ open |-> FALSE, entries |-> <<>> ]
            /\ diskIdx = 0 /\ disks = <<>>
IdleMount == /\ mountsFile = [ open |-> FALSE, lines |-> <<>> ]
             /\ mountIdx = 0 /\ partitions = <<>>
IdleDistro == /\ osRelease = [ open |-> FALSE, lines |-> <<>> ]
              /\ osIdx = 0 /\ distro = NewDistroInfo
IdleSysCpu == /\ cpuDir = [ open |-> FALSE, entries |-> <<>> ]
              /\ cpuIdx = 0 /\ frequencies = <<>> /\ sockets = <<>> /\ cores = <<>>
IdleSys == /\ timezoneFile = NoFile
           /\ kernel = [ uname |-> FALSE, getdomainname |-> FALSE, sysinfo |-> FALSE, uptime |-> 90 ]
           /\ sys_info = NewSystemInfo
IdleEnv == envIdx = 0 /\ env_info = NewEnvironmentInfo
IdleOs  == environ = NoEnvironment /\ IdleSys /\ IdleEnv

----------------------------------------------------------------------------
(* One invocation of a tool: main, parseArgs, run                          *)

(* State when main has constructed the utility object: the constructor    *)
(* sets use_colors = isatty(STDOUT_FILENO), the selectors are false.  No   *)
(* input has been opened yet: the probes open them in run().               *)
Init ==
    /\ IdleOs
    /\ IdleSysCpu
    /\ IdleDistro
    /\ IdleMount
    /\ IdleDisk
    /\ IdleProc
    /\ tool \in Tools
    /\ argv \in SeqsUpTo(ArgAlphabet(tool), MaxArgs)
    /\ tty \in BOOLEAN
    /\ use_colors = tty
    /\ show = [ s \in Selectors(tool) |-> FALSE ]
    /\ absent = {}
    /\ IdleCpu
    /\ argi = 1 /\ pc = "parseArgs" /\ exitCode = -1
    /\ out = <<>> /\ err = <<>> /\ sect = 1 /\ reached = <<>>
    /\ IdleNum /\ IdleMem

InParseArgs == pc = "parseArgs" /\ argi <= Len(argv)
arg == argv[argi]

(* exit(code) *)
Exit(code) == pc' = "exited" /\ exitCode' = code

(* the --help arm without its exit(0): the loop goes on *)
ParseHelp_Continues ==
    /\ InParseArgs /\ arg \in HelpFlags
    /\ out' = out \o << "Usage: " \o tool \o " [OPTION]..." >>
    /\ argi' = argi + 1
    /\ UNCHANGED <<osVars, sysCpuVars, distroVars, mountVars, diskVars, procVars, tool, argv, show, use_colors, tty,
                   absent, pc, exitCode, err, sect, reached, cpuVars, numVars, memVars>>

(* arg == "--help" || arg == "-h": printHelp(); exit(0) *)
ParseHelp ==
    /\ InParseArgs /\ arg \in HelpFlags
    /\ out' = out \o << "Usage: " \o tool \o " [OPTION]..." >>
    /\ Exit(0)
    /\ UNCHANGED <<osVars, sysCpuVars, distroVars, mountVars, diskVars, procVars, tool, argv, argi, show, use_colors, tty, absent, err, sect, reached,
                   cpuVars, numVars, memVars>>

(* arg == "--version" || arg == "-V": printVersion(); exit(0) *)
ParseVersion ==
    /\ InParseArgs /\ arg \in VersionFlags
    /\ out' = out \o << tool \o " (QCO InfoUtils) 1.0" >>
    /\ Exit(0)
    /\ UNCHANGED <<osVars, sysCpuVars, distroVars, mountVars, diskVars, procVars, tool, argv, argi, show, use_colors, tty, absent, err, sect, reached,
                   cpuVars, numVars, memVars>>

(* one of the selector arms: show_x = true *)
SetSelector(sh, a) == [sh EXCEPT ![OptionTable(tool)[a]] = TRUE]

ParseSelector ==
    /\ InParseArgs /\ arg \in DOMAIN OptionTable(tool)
    /\ show' = SetSelector(show, arg)
    /\ argi' = argi + 1
    /\ UNCHANGED <<osVars, sysCpuVars, distroVars, mountVars, diskVars, procVars, tool, argv, use_colors, tty, absent, pc, exitCode, out, err, sect, reached,
                   cpuVars, numVars, memVars>>

(* arg == "--all" || arg == "-a": every selector = true *)
SetAll_ForgetsOne(sh) == [ s \in DOMAIN sh |-> IF s = "show_detailed" THEN sh[s] ELSE TRUE ]

SetAll(sh) == [ s \in DOMAIN sh |-> TRUE ]

ParseAll ==
    /\ InParseArgs /\ arg \in AllFlags
    /\ show' = SetAll(show)
    /\ argi' = argi + 1
    /\ UNCHANGED <<osVars, sysCpuVars, distroVars, mountVars, diskVars, procVars, tool, argv, use_colors, tty, absent, pc, exitCode, out, err, sect, reached,
                   cpuVars, numVars, memVars>>

(* arg == "--no-color": use_colors = false *)
ParseNoColor ==
    /\ InParseArgs /\ arg = NoColorFlag
    /\ use_colors' = FALSE
    /\ argi' = argi + 1
    /\ UNCHANGED <<osVars, sysCpuVars, distroVars, mountVars, diskVars, procVars, tool, argv, show, tty, absent, pc, exitCode, out, err, sect, reached,
                   cpuVars, numVars, memVars>>

(* The text of the final else arm. *)
InvalidOption == "invalid option"
InvalidOptionMessage_Reworded(a) == << tool \o ": ", "unrecognized option", " '" \o a \o "'" >>

InvalidOptionMessage(a) == << tool \o ": ", InvalidOption, " -- '" \o a \o "'" >>

(* else: error line on std::cerr; exit(1) *)
ParseInvalid ==
    /\ InParseArgs /\ arg \notin Recognised(tool)
    /\ err' = err \o colorize(InvalidOptionMessage(arg), RED)
                  \o << "Try '" \o tool \o " --help' for more information." >>
    /\ Exit(1)
    /\ UNCHANGED <<osVars, sysCpuVars, distroVars, mountVars, diskVars, procVars, tool, argv, argi, show, use_colors, tty, absent, out, sect, reached,
                   cpuVars, numVars, memVars>>

(* the for loop ends: parseArgs returns and main calls run().  The file   *)
(* system the probes of this run will find is fixed here: which inputs    *)
(* cannot be opened, and what /proc/cpuinfo holds when it can.            *)
ParseArgsReturn ==
    /\ pc = "parseArgs" /\ argi > Len(argv)
    /\ pc' = "run"
    /\ absent' \in SUBSET Inputs(tool)
    /\ procCpuinfo' \in (IF tool = "cpuinfo" /\ "/proc/cpuinfo" \notin absent'
                         THEN { CpuinfoWellFormed, CpuinfoMalformed } ELSE { <<>> })
    /\ UNCHANGED <<osVars, sysCpuVars, distroVars, mountVars, diskVars, procVars, tool, argv, argi, show, use_colors, tty, exitCode, out, err, sect,
                   reached, cpuLine, info, numVars, memVars>>

InRun == pc = "run" /\ sect <= Len(Sections(tool))
section == Sections(tool)[sect]
Selected(sec) == IF sec.guard = "" THEN TRUE ELSE show[sec.guard]

(* run(): the next section is unconditional or its selector is set *)
RunSection ==
    /\ InRun /\ Selected(section)
    /\ reached' = Append(reached, section.name)
    /\ LET eff == SectionEffect(tool, section.name)
       IN  /\ out' = out \o eff.out
           /\ err' = err \o eff.err
           /\ IF eff.exc # "" THEN pc' = "catch" /\ sect' = sect
                             ELSE pc' = pc /\ sect' = sect + 1
    /\ UNCHANGED <<osVars, sysCpuVars, distroVars, mountVars, diskVars, procVars, tool, argv, argi, show, use_colors, tty, absent, exitCode,
                   cpuVars, numVars, memVars>>

(* run(): if (show_x) is false *)
SkipSection ==
    /\ InRun /\ ~Selected(section)
    /\ sect' = sect + 1
    /\ UNCHANGED <<osVars, sysCpuVars, distroVars, mountVars, diskVars, procVars, tool, argv, argi, show, use_colors, tty, absent, pc, exitCode, out, err,
                   reached, cpuVars, numVars, memVars>>

(* run() returns; main returns 0 *)
MainReturn ==
    /\ pc = "run" /\ sect > Len(Sections(tool))
    /\ Exit(0)
    /\ UNCHANGED <<osVars, sysCpuVars, distroVars, mountVars, diskVars, procVars, cliVars, cpuVars, numVars, memVars>>

(* catch (const std::exception& e): "<tool>: <what>" on std::cerr; return 1 *)
MainCatch ==
    /\ pc = "catch"
    /\ err' = err \o << tool \o ": ", "exception" >>
    /\ Exit(1)
    /\ UNCHANGED <<osVars, sysCpuVars, distroVars, mountVars, diskVars, procVars, tool, argv, argi, show, use_colors, tty, absent, out, sect, reached,
                   cpuVars, numVars, memVars>>

Next ==
    \/ ParseHelp \/ ParseVersion \/ ParseSelector \/ ParseAll \/ ParseNoColor
    \/ ParseInvalid \/ ParseArgsReturn
    \/ RunSection \/ SkipSection \/ MainReturn \/ MainCatch

Spec == Init /\ [][Next]_vars

----------------------------------------------------------------------------
(* Properties of one invocation (specification Spec)                       *)

Exited       == pc = "exited"
HasUnknown   == \E i \in 1..Len(argv) : argv[i] \notin Recognised(tool)
(* no help, version or unrecognised argument: parseArgs returns *)
ValidFlags   == \A i \in 1..Len(argv) :
                    argv[i] \in Recognised(tool) \ (HelpFlags \cup VersionFlags)
(* the first unrecognised argument has no help or version flag before it *)
UnknownComesFirst ==
    \E i \in 1..Len(argv) :
        /\ argv[i] \notin Recognised(tool)
        /\ \A j \in 1..(i - 1) : argv[j] \notin (HelpFlags \cup VersionFlags)
ReportedInvalid == exitCode = 1 /\ InvalidOption \in Range(err)

(* C1 as stated: whenever the argument list holds an argument outside the *)
(* tool's recognised set, the process exits with code 1 and standard      *)
(* error contains "invalid option".                                       *)
C1_AnyUnknownExitsOne == (Exited /\ HasUnknown) => ReportedInvalid

(* C1 amended: when an unrecognised argument is not preceded by a help or *)
(* version flag, the process exits with code 1 and standard error         *)
(* contains "invalid option".                                             *)
C1_FirstUnknownExitsOne == (Exited /\ UnknownComesFirst) => ReportedInvalid

C1_Witness ==
    /\ Exited /\ Len(argv) = 2
    /\ argv[1] \in AllFlags /\ argv[2] \notin Recognised(tool)
    /\ ReportedInvalid

(* The sections run() should enter: the first, then each whose selector   *)
(* is set, in call order.                                                  *)
RECURSIVE SelectedNames(_)
SelectedNames(secs) ==
    IF secs = <<>> THEN <<>>
    ELSE (IF Selected(secs[1]) THEN << secs[1].name >> ELSE <<>>) \o SelectedNames(Tail(secs))

(* every "cpu MHz" / "siblings" line of a readable /proc/cpuinfo holds a  *)
(* number                                                                  *)
NumbersConvertible ==
    \A i \in 1..Len(procCpuinfo) :
        LET line == procCpuinfo[i]
        IN  (line # <<>> /\ line[1] \in { "cpu MHz", "siblings" })
                => Convertible(SubSeq(line, FindColon(line) + 1, Len(line)))

(* C2 as stated: a run with valid flags in which one, several or all      *)
(* inputs cannot be opened still enters every selected section and exits  *)
(* with code 0.                                                            *)
C2_AbsentInputsStillReport ==
    (Exited /\ ValidFlags /\ absent # {})
        => (exitCode = 0 /\ reached = SelectedNames(Sections(tool)))

(* C4: once parseArgs has processed -a / --all, every selector of the     *)
(* tool is true, during the rest of parseArgs and after it returns,       *)
(* whatever arguments came before or come after.                          *)
C4_AllSetsEverySelector ==
    (\E i \in 1..(argi - 1) : argv[i] \in AllFlags) => \A s \in Selectors(tool) : show[s]

C4_Witness ==
    /\ pc = "run" /\ Len(argv) = 2
    /\ argv[1] \in AllFlags /\ argv[2] \in DOMAIN OptionTable(tool)
    /\ \A s \in Selectors(tool) : show[s]

(* C5: when --no-color is anywhere in a valid argument list, use_colors   *)
(* is false from the start of run() on, whatever isatty returned, and      *)
(* standard output holds no escape sequence.                               *)
C5_NoColorNoEscapes ==
    (pc # "parseArgs" /\ ValidFlags /\ NoColorFlag \in Range(argv))
        => (~use_colors /\ Range(out) \cap AnsiTokens = {})

C5_Witness ==
    /\ Exited /\ exitCode = 0 /\ tty
    /\ NoColorFlag \in Range(argv)
    /\ Len(reached) >= 2 /\ out # <<>>
    /\ Range(out) \cap AnsiTokens = {}

(* help, version and unrecognised arguments end parseArgs *)
Terminal(a) == a \in HelpFlags \cup VersionFlags \/ a \notin Recognised(tool)
HasTerminal == \E i \in 1..Len(argv) : Terminal(argv[i])
FirstTerminal == CHOOSE i \in 1..Len(argv) :
                    Terminal(argv[i]) /\ \A j \in 1..(i - 1) : ~Terminal(argv[j])

(* the selectors and use_colors after the arguments before position n,    *)
(* taken from left to right                                                *)
ShowAfter(n) ==
    [ s \in Selectors(tool) |->
        \E i \in 1..(n - 1) :
            \/ argv[i] \in AllFlags
            \/ argv[i] \in DOMAIN OptionTable(tool) /\ OptionTable(tool)[argv[i]] = s ]
ColorsAfter(n) == tty /\ \A i \in 1..(n - 1) : argv[i] # NoColorFlag

(* C19: with a help, version or unrecognised argument in the list,        *)
(* parseArgs never gets past the first of them: the arguments before it   *)
(* take effect from left to right, the process then exits with 0 for help *)
(* or version and with 1 for an unrecognised argument, no later argument  *)
(* has any effect and run() enters no section.                            *)
C19_StopsAtFirstTerminal ==
    HasTerminal =>
        /\ argi <= FirstTerminal
        /\ show = ShowAfter(argi) /\ use_colors = ColorsAfter(argi)
        /\ pc \in { "parseArgs", "exited" }
        /\ reached = <<>> /\ sect = 1 /\ absent = {}
        /\ Exited =>
              /\ argi = FirstTerminal
              /\ exitCode = IF argv[FirstTerminal] \in HelpFlags \cup VersionFlags THEN 0 ELSE 1
              /\ (exitCode = 0) = (err = <<>>)
              /\ (exitCode = 0) = (out # <<>>)

C19_Witness ==
    /\ Exited /\ Len(argv) = 2
    /\ argv[1] \in HelpFlags \cup VersionFlags
    /\ argv[2] \notin Recognised(tool)
    /\ exitCode = 0 /\ argi = 1 /\ reached = <<>> /\ err = <<>>

(* C20: when the process has exited after parseArgs returned, run() has   *)
(* entered the first section and exactly the later sections whose         *)
(* selector is set, in the order of the tool's section list, whatever the *)
(* order of the flags on the command line.                                 *)
C20_SectionsInFixedOrder ==
    (Exited /\ ValidFlags) => reached = SelectedNames(Sections(tool))

----------------------------------------------------------------------------
(* getCpuInfo line by line (specification SpecCpuInfo): cpuinfo started    *)
(* without arguments, at the call of getCpuInfo() in printGeneralInfo.     *)
(* A file that cannot be opened reads as no lines.                         *)

InitCpuInfo ==
    /\ IdleOs
    /\ IdleSysCpu
    /\ IdleDistro
    /\ IdleMount
    /\ IdleDisk
    /\ IdleProc
    /\ tool = "cpuinfo" /\ argv = <<>> /\ argi = 1 /\ tty = FALSE /\ use_colors = FALSE
    /\ show = [ s \in Selectors("cpuinfo") |-> FALSE ]
    /\ absent = {}
    /\ out = <<>> /\ err = <<>> /\ sect = 1 /\ reached = << "printGeneralInfo" >>
    /\ pc = "getCpuInfo" /\ exitCode = -1
    /\ procCpuinfo \in SeqsUpTo(CpuinfoLines, MaxLines)
    /\ cpuLine = 0 /\ info = NewCpuInfo
    /\ IdleNum /\ IdleMem

InGetCpuInfo == pc = "getCpuInfo" /\ cpuLine < Len(procCpuinfo)
lineRead == procCpuinfo[cpuLine + 1]

(* one iteration of the getline loop that completes *)
GetCpuInfoLine ==
    /\ InGetCpuInfo
    /\ CpuInfoLine(info, lineRead).exc = ""
    /\ info' = CpuInfoLine(info, lineRead)
    /\ cpuLine' = cpuLine + 1
    /\ UNCHANGED <<osVars, sysCpuVars, distroVars, mountVars, diskVars, procVars, cliVars, pc, exitCode, procCpuinfo, numVars, memVars>>

(* one iteration in which std::stod / std::stoi throws: nothing in        *)
(* getCpuInfo, printGeneralInfo or run catches, so control reaches the     *)
(* catch block of main                                                     *)
GetCpuInfoThrow ==
    /\ InGetCpuInfo
    /\ CpuInfoLine(info, lineRead).exc # ""
    /\ info' = CpuInfoLine(info, lineRead)
    /\ cpuLine' = cpuLine + 1
    /\ pc' = "catch"
    /\ UNCHANGED <<osVars, sysCpuVars, distroVars, mountVars, diskVars, procVars, cliVars, exitCode, procCpuinfo, numVars, memVars>>

(* end of file: physical_cores is set, the record is returned and         *)
(* printGeneralInfo prints it *)
GetCpuInfoReturn ==
    /\ pc = "getCpuInfo" /\ cpuLine = Len(procCpuinfo)
    /\ info' = CpuInfoFinish(info)
    /\ out' = out \o printSeparator("CPU Information")
    /\ sect' = sect + 1
    /\ pc' = "run"
    /\ UNCHANGED <<osVars, sysCpuVars, distroVars, mountVars, diskVars, procVars, tool, argv, argi, show, use_colors, tty, absent, err, reached, exitCode,
                   procCpuinfo, cpuLine, numVars, memVars>>

NextCpuInfo ==
    \/ GetCpuInfoLine \/ GetCpuInfoThrow \/ GetCpuInfoReturn
    \/ SkipSection \/ MainReturn \/ MainCatch

SpecCpuInfo == InitCpuInfo /\ [][NextCpuInfo]_vars

----------------------------------------------------------------------------
(* Properties of getCpuInfo (specification SpecCpuInfo)                    *)

(* getCpuInfo has returned its record *)
CpuInfoReturned == pc \in { "run", "exited" } /\ info.exc = ""

(* the text of a line before its colon, trailing blanks aside *)
LineKey(line) == TrimRight(SubSeq(line, 1, FindColon(line) - 1))
(* the text of a line after its colon, leading blanks aside *)
LineValue(line) == TrimLeft(SubSeq(line, FindColon(line) + 1, Len(line)))

KeyLines(k) ==
    { i \in 1..Len(procCpuinfo) : FindColon(procCpuinfo[i]) # 0 /\ LineKey(procCpuinfo[i]) = <<k>> }

CoreIdValues == { LineValue(procCpuinfo[i]) : i \in KeyLines("core id") }

(* C3 as stated: a `cpu MHz` or `siblings` line whose value cannot be     *)
(* converted leaves the field 0, the remaining lines are still processed, *)
(* no exception reaches main and the exit code is 0.                      *)
C3_BadNumberIsAbsorbed ==
    (Exited /\ ~NumbersConvertible)
        => (exitCode = 0 /\ info.exc = "" /\ cpuLine = Len(procCpuinfo))

(* C6 as stated: the record getCpuInfo returns has                        *)
(* physical_cores <= logical_cores, whatever the file holds.              *)
C6_PhysicalAtMostLogical ==
    CpuInfoReturned => info.physical_cores <= info.logical_cores

(* C7: in the record getCpuInfo returns, logical_cores is the number of   *)
(* `processor` lines and physical_cores the number of distinct `core id`  *)
(* values, or logical_cores when the file has no `core id` line.          *)
C7_CoreCounts ==
    CpuInfoReturned =>
        /\ info.logical_cores = Cardinality(KeyLines("processor"))
        /\ info.physical_cores = IF KeyLines("core id") = {}
                                 THEN info.logical_cores
                                 ELSE Cardinality(CoreIdValues)

(* two `processor` lines with core ids 0 and 0: logical 2, physical 1 *)
C7_Witness ==
    /\ CpuInfoReturned
    /\ procCpuinfo = << LineProcessor, LineCoreId0, LineProcessor, LineCoreId0 >>
    /\ info.logical_cores = 2 /\ info.physical_cores = 1

(* C21 as stated: when the file has several `siblings` lines, the        *)
(* siblings field of the record getCpuInfo returns is the value of the    *)
(* first of them.                                                          *)
C21_SiblingsFromFirstLine ==
    (CpuInfoReturned /\ KeyLines("siblings") # {})
        => LET first == CHOOSE i \in KeyLines("siblings") :
                            \A j \in KeyLines("siblings") : i <= j
           IN  info.siblings = stoi(LineValue(procCpuinfo[first]))

----------------------------------------------------------------------------
(* The numeric probes (specification SpecNum): cpuinfo at the call of      *)
(* getCpuLoad() in printLoadInfo, or diskls at the statvfs call of         *)
(* getPartitionInfo() for a row that passed the filter.                    *)

InitLoad ==
    /\ IdleOs
    /\ IdleSysCpu
    /\ IdleDistro
    /\ IdleMount
    /\ IdleDisk
    /\ IdleProc
    /\ IdleCli /\ IdleCpu /\ IdleMem
    /\ pc = "getCpuLoad" /\ exitCode = -1
    /\ loadavgFile \in LoadavgFiles
    /\ statFile \in StatFiles
    /\ load = NewCpuLoad
    /\ vfs = [ ok |-> FALSE, f_blocks |-> 0, f_bfree |-> 0, f_bavail |-> 0, f_frsize |-> 0 ]
    /\ part = NewPartitionInfo

InitUsage ==
    /\ IdleOs
    /\ IdleSysCpu
    /\ IdleDistro
    /\ IdleMount
    /\ IdleDisk
    /\ IdleProc
    /\ IdleCli /\ IdleCpu /\ IdleMem
    /\ pc = "statvfs" /\ exitCode = -1
    /\ loadavgFile = [ open |-> FALSE, fields |-> <<>> ]
    /\ statFile = [ open |-> FALSE, lines |-> <<>> ]
    /\ load = NewCpuLoad
    /\ vfs \in StatvfsResults
    /\ part = NewPartitionInfo

InitNum == InitLoad \/ InitUsage

(* CpuLoad load = getCpuLoad(); *)
GetCpuLoad ==
    /\ pc = "getCpuLoad"
    /\ load' = getCpuLoad(loadavgFile, statFile)
    /\ pc' = "probed"
    /\ UNCHANGED <<osVars, sysCpuVars, distroVars, mountVars, diskVars, procVars, cliVars, cpuVars, memVars, exitCode, loadavgFile, statFile, vfs, part>>

(* the statvfs block and partitions.push_back(part) *)
GetPartitionUsage ==
    /\ pc = "statvfs"
    /\ part' = SpaceUsage(vfs)
    /\ pc' = "probed"
    /\ UNCHANGED <<osVars, sysCpuVars, distroVars, mountVars, diskVars, procVars, cliVars, cpuVars, memVars, exitCode, loadavgFile, statFile, load, vfs>>

NextNum == GetCpuLoad \/ GetPartitionUsage

SpecNum == InitNum /\ [][NextNum]_vars

----------------------------------------------------------------------------
(* Properties of the numeric probes (specification SpecNum)                *)

(* 0 <= x <= 100 for a double *)
InPercentRange(x) == x.kind = "zero" \/ (x.kind = "finite" /\ DoubleAtMost(x, 100))

(* C8: every percentage a probe produces lies in [0, 100], whatever the   *)
(* seven counters of the cpu line and whatever statvfs returned.           *)
C8_PercentagesInRange ==
    pc = "probed" => InPercentRange(load.cpu_usage) /\ InPercentRange(part.usage_percent)

(* C17: for an emitted mount with total_bytes > 0, used_bytes plus        *)
(* available_bytes is at most total_bytes, whatever statvfs returned.     *)
C17_UsedPlusAvailable ==
    (pc = "probed" /\ vfs.ok /\ part.total_bytes > 0)
        => part.used_bytes + part.available_bytes <= part.total_bytes

(* the cpu line as the claim reads it: seven counters *)
SevenCounters ==
    /\ statFile.open /\ statFile.lines # <<>>
    /\ statFile.lines[1].label = "cpu"
    /\ \A k \in 1..7 : statFile.lines[1].fields[k] # NotANumber
Counter(k) == statFile.lines[1].fields[k]
CounterSum == (Counter(1) + Counter(2) + Counter(3) + Counter(4) + Counter(5)
               + Counter(6) + Counter(7)) % Modulus

(* C9: getCpuLoad takes total as the sum of the seven counters (in the    *)
(* unsigned arithmetic of the counters) and sets cpu_usage to              *)
(* (total - idle - iowait) / total * 100 when total > 0; cpu_usage stays   *)
(* 0 when total = 0 or /proc/stat cannot be read.                          *)
C9_CpuUsageFormula ==
    pc = "probed" =>
        /\ (SevenCounters /\ CounterSum > 0) =>
              load.cpu_usage =
                  DoubleMul(DoubleDiv((CounterSum - Counter(4) - Counter(5)) % Modulus,
                                      CounterSum), 100)
        /\ (SevenCounters /\ CounterSum = 0) => load.cpu_usage = DoubleZero
        /\ (~statFile.open \/ statFile.lines = <<>>) => load.cpu_usage = DoubleZero

(* a cpu line whose last counter matters: softirq is the only busy time *)
C9_Witness ==
    /\ pc = "probed" /\ SevenCounters
    /\ Counter(7) = 2 /\ Counter(4) = 2 /\ Counter(5) = 0
    /\ Counter(1) = 0 /\ Counter(2) = 0 /\ Counter(3) = 0 /\ Counter(6) = 0
    /\ CounterSum = 4 /\ Truncate(load.cpu_usage) = 50

(* the lines of /proc/stat whose first token is `cpu` *)
AggregateRows ==
    IF statFile.open
    THEN { i \in 1..Len(statFile.lines) : statFile.lines[i].label = "cpu" }
    ELSE {}

(* C22 as stated: the seven counters of the record getCpuLoad returns are *)
(* those of the first line of /proc/stat whose first token is `cpu`, also *)
(* when a line with another first token (cpu0, intr) precedes it.         *)
C22_CountersFromCpuRow ==
    (pc = "probed" /\ AggregateRows # {})
        => LET row == statFile.lines[CHOOSE i \in AggregateRows :
                                        \A j \in AggregateRows : i <= j].fields
           IN  /\ load.user = Extracted(row, 1) /\ load.nice = Extracted(row, 2)
               /\ load.system = Extracted(row, 3) /\ load.idle = Extracted(row, 4)
               /\ load.iowait = Extracted(row, 5) /\ load.irq = Extracted(row, 6)
               /\ load.softirq = Extracted(row, 7)

----------------------------------------------------------------------------
(* getMemoryInfo line by line and the arithmetic of printGeneralInfo       *)
(* (specification SpecMem): meminfo at the call of printGeneralInfo().     *)
(* A file that cannot be opened reads as no lines.                         *)

InitMem ==
    /\ IdleOs
    /\ IdleSysCpu
    /\ IdleDistro
    /\ IdleMount
    /\ IdleDisk
    /\ IdleProc
    /\ tool = "meminfo" /\ argv = <<>> /\ argi = 1 /\ tty = FALSE /\ use_colors = FALSE
    /\ show = [ s \in Selectors("meminfo") |-> FALSE ]
    /\ absent = {}
    /\ out = <<>> /\ err = <<>> /\ sect = 1 /\ reached = << "printGeneralInfo" >>
    /\ pc = "getMemoryInfo" /\ exitCode = -1
    /\ IdleCpu /\ IdleNum
    /\ memFile \in SeqsUpTo(MeminfoLines, MaxMemLines)
    /\ memLine = 0 /\ mem = NewMemReport

(* one iteration of the getline loop *)
GetMemoryInfoLine ==
    /\ pc = "getMemoryInfo" /\ memLine < Len(memFile)
    /\ mem' = [ mem EXCEPT !.info = MemInfoLine(@, memFile[memLine + 1]) ]
    /\ memLine' = memLine + 1
    /\ UNCHANGED <<osVars, sysCpuVars, distroVars, mountVars, diskVars, procVars, cliVars, cpuVars, numVars, pc, exitCode, memFile>>

(* end of file: the record is returned, printGeneralInfo computes used_kb *)
(* and used_percentage and prints the rows                                 *)
PrintGeneralInfo ==
    /\ pc = "getMemoryInfo" /\ memLine = Len(memFile)
    /\ \E p \in CastToInt(UsedPercentage(mem.info)) :
          mem' = [ mem EXCEPT !.printed = TRUE,
                              !.used_kb = UsedKb(mem.info),
                              !.used_percentage = UsedPercentage(mem.info),
                              !.percent = p ]
    /\ out' = out \o printSeparator("Memory Information")
    /\ sect' = sect + 1
    /\ pc' = "run"
    /\ UNCHANGED <<osVars, sysCpuVars, distroVars, mountVars, diskVars, procVars, tool, argv, argi, show, use_colors, tty, absent, err, reached, exitCode,
                   cpuVars, numVars, memFile, memLine>>

NextMem == GetMemoryInfoLine \/ PrintGeneralInfo \/ SkipSection \/ MainReturn

SpecMem == InitMem /\ [][NextMem]_vars

----------------------------------------------------------------------------
(* Properties of meminfo's general section (specification SpecMem)         *)

MemKeyLines(k) == { i \in 1..Len(memFile) : memFile[i].key = k }

(* the file states MemTotal = T and MemAvailable = A, each on one line *)
MemFileStates(T, A) ==
    /\ \E i \in 1..Len(memFile) :
          /\ MemKeyLines("MemTotal:") = { i }
          /\ memFile[i].value = T
    /\ \E i \in 1..Len(memFile) :
          /\ MemKeyLines("MemAvailable:") = { i }
          /\ memFile[i].value = A

MemValues == { l.value : l \in MeminfoLines } \ { NotANumber }

(* C10: with MemTotal = T > 0 and MemAvailable = A <= T in the file,      *)
(* printGeneralInfo reports used = T - A kB and the integer percentage     *)
(* floor((T - A) * 100 / T).                                               *)
C10_UsedAndPercentage ==
    \A T \in MemValues, A \in MemValues :
        (mem.printed /\ MemFileStates(T, A) /\ T > 0 /\ A <= T) =>
            /\ mem.used_kb = T - A
            /\ mem.percent = ((T - A) * 100) \div T

(* the lines read so far that give key k a number followed by kB *)
KbLines(k) ==
    { i \in 1..memLine : /\ memFile[i].key = k
                         /\ memFile[i].value # NotANumber
                         /\ memFile[i].unit = "kB" }

----------------------------------------------------------------------------
(* getTopProcesses entry by entry (specification SpecProc): meminfo -p at  *)
(* the call of getTopProcesses(limit) in printProcesses.                   *)

InitProc ==
    /\ IdleOs
    /\ IdleSysCpu
    /\ IdleDistro
    /\ IdleMount
    /\ IdleDisk
    /\ tool = "meminfo" /\ argv = << "-p" >> /\ argi = 2 /\ tty = FALSE /\ use_colors = FALSE
    /\ show = [ s \in Selectors("meminfo") |-> s = "show_processes" ]
    /\ absent = {}
    /\ out = <<>> /\ err = <<>> /\ sect = 2
    /\ reached = << "printGeneralInfo", "printProcesses" >>
    /\ pc = "getTopProcesses" /\ exitCode = -1
    /\ IdleCpu /\ IdleNum /\ IdleMem
    /\ procDir \in [ open : BOOLEAN, entries : ProcListings ]
    /\ procIdx = 0
    /\ limit \in Limits
    /\ processes = <<>>

(* the exception the next step of the try block raises ("" for none):      *)
(* fs::directory_iterator("/proc") itself, or the body for the next entry  *)
Thrown ==
    IF ~procDir.open THEN "filesystem_error"
    ELSE IF procIdx < Len(procDir.entries)
         THEN ProcessEntry(procDir.entries[procIdx + 1]).exc
         ELSE ""

(* one iteration of the loop that completes: continue, or push_back *)
GetTopProcessesEntry ==
    /\ pc = "getTopProcesses" /\ procDir.open /\ procIdx < Len(procDir.entries)
    /\ Thrown = ""
    /\ processes' = processes \o ProcessEntry(procDir.entries[procIdx + 1]).push
    /\ procIdx' = procIdx + 1
    /\ UNCHANGED <<osVars, sysCpuVars, distroVars, mountVars, diskVars, cliVars, cpuVars, numVars, memVars, pc, exitCode, procDir, limit>>

(* an exception leaves the loop: the catch block after the loop writes the *)
(* warning, and the entries not yet visited are never visited             *)
GetTopProcessesCatch ==
    /\ pc = "getTopProcesses"
    /\ Thrown # ""
    /\ err' = err \o colorize(<< "Warning: Could not read all process information" >>, YELLOW)
    /\ pc' = "sort"
    /\ UNCHANGED <<osVars, sysCpuVars, distroVars, mountVars, diskVars, tool, argv, argi, show, use_colors, tty, absent, out, sect, reached,
                   cpuVars, numVars, memVars, exitCode, procVars>>

(* after the try block: std::sort, resize, return; printProcesses prints   *)
(* the rows                                                                *)
GetTopProcessesReturn ==
    /\ \/ pc = "sort"
       \/ pc = "getTopProcesses" /\ procDir.open /\ procIdx = Len(procDir.entries)
    /\ \E sorted \in SortedOrders(processes) : processes' = Resize(sorted, limit)
    /\ out' = out \o printSeparator("Top Memory Consumers")
    /\ sect' = sect + 1
    /\ pc' = "run"
    /\ UNCHANGED <<osVars, sysCpuVars, distroVars, mountVars, diskVars, tool, argv, argi, show, use_colors, tty, absent, err, reached, exitCode,
                   cpuVars, numVars, memVars, procDir, procIdx, limit>>

NextProc ==
    \/ GetTopProcessesEntry \/ GetTopProcessesCatch \/ GetTopProcessesReturn
    \/ MainReturn

SpecProc == InitProc /\ [][NextProc]_vars

----------------------------------------------------------------------------
(* Properties of getTopProcesses (specification SpecProc)                  *)

ProcReturned == pc \in { "run", "exited" }

(* what the status file of an entry states *)
NameLines(e) == { i \in 1..Len(e.status.lines) : substr(e.status.lines[i], 0, 5) = NamePrefix }
RssLines(e)  == { i \in 1..Len(e.status.lines) : substr(e.status.lines[i], 0, 6) = RssPrefix }
StatedRss(e) ==
    IF RssLines(e) = {} THEN 0
    ELSE ExtractRss(e.status.lines[CHOOSE i \in RssLines(e) : TRUE]).value

(* the three failures of reading one entry *)
StatusUnreadable(e) == ~e.status.open
NameEndsAtColon(e)  == \E i \in NameLines(e) : Len(e.status.lines[i]) = 5
PidUnconvertible(e) == AllDigits(e.dirname) /\ ~FitsInt(e.dirname)
FailsToRead(e) == StatusUnreadable(e) \/ NameEndsAtColon(e) \/ PidUnconvertible(e)

(* a numeric process entry with a non-empty name and VmRSS > 0 *)
Eligible(e) ==
    /\ e.is_directory /\ e.dirname # <<>> /\ AllDigits(e.dirname)
    /\ ~FailsToRead(e)
    /\ \E i \in NameLines(e) : Len(e.status.lines[i]) > 6
    /\ StatedRss(e) > 0

EligibleEntries ==
    IF procDir.open THEN { e \in Range(procDir.entries) : Eligible(e) } ELSE {}

ReturnedPids == { processes[i].pid : i \in 1..Len(processes) }

(* C11 as stated: getTopProcesses(k) returns exactly min(k, n) records for *)
(* the n eligible entries, they are entries with the largest resident sets *)
(* in non-increasing order, and none has an empty name or memory_kb = 0.   *)
C11_TopProcesses ==
    ProcReturned =>
        LET n == Cardinality(EligibleEntries)
        IN  /\ Len(processes) = IF limit < n THEN limit ELSE n
            /\ \A i \in 1..(Len(processes) - 1) :
                  processes[i].memory_kb >= processes[i + 1].memory_kb
            /\ \A i \in 1..Len(processes) :
                  /\ processes[i].name # <<>> /\ processes[i].memory_kb > 0
                  /\ \E e \in EligibleEntries :
                        /\ DecimalValue(e.dirname) = processes[i].pid
                        /\ StatedRss(e) = processes[i].memory_kb
            /\ \A e \in EligibleEntries :
                  DecimalValue(e.dirname) \notin ReturnedPids =>
                      \A i \in 1..Len(processes) : processes[i].memory_kb >= StatedRss(e)

(* C12 as stated: an entry that fails to read (status file that cannot be  *)
(* opened, Name: line with nothing after the colon, directory number that  *)
(* cannot be converted) is the only one skipped: every eligible process of *)
(* the directory is in the result (the limit leaving room for all).        *)
C12_OneFailureSkipsOne ==
    (ProcReturned /\ Cardinality(EligibleEntries) <= limit) =>
        \A e \in EligibleEntries : DecimalValue(e.dirname) \in ReturnedPids

(* the first line of the cmdline file of the entry a record came from *)
CmdlineOf(pid) ==
    LET e == CHOOSE x \in Range(procDir.entries) :
                 AllDigits(x.dirname) /\ x.dirname # <<>> /\ FitsInt(x.dirname)
                 /\ DecimalValue(x.dirname) = pid
    IN  IF e.cmdline.open THEN FirstLine(e.cmdline.text) ELSE <<>>

Spaced(line) == [ i \in 1..Len(line) |-> IF line[i] = NUL THEN " " ELSE line[i] ]

(* C25: the cmd of every record of getTopProcesses holds no NUL byte; it  *)
(* is the whole first line of the cmdline file, NUL bytes as spaces, when *)
(* that line has at most 40 characters, and otherwise the first 37        *)
(* characters of it followed by "...", 40 characters in all.              *)
C25_CommandLineField ==
    \A n \in 1..Len(processes) :
        LET cmd  == processes[n].cmd
            line == Spaced(CmdlineOf(processes[n].pid))
        IN  /\ NUL \notin Range(cmd)
            /\ Len(line) <= 40 => cmd = line
            /\ Len(line) > 40 =>
                  /\ Len(cmd) = 40
                  /\ SubSeq(cmd, 1, 37) = SubSeq(line, 1, 37)
                  /\ SubSeq(cmd, 38, 40) = << ".", ".", "." >>

(* a record with a line of 41 characters, one with a line of exactly 40   *)
C25_Witness ==
    /\ ProcReturned
    /\ \E n \in 1..Len(processes) :
          /\ processes[n].pid = 42 /\ Len(processes[n].cmd) = 40
          /\ processes[n].cmd[5] = " " /\ processes[n].cmd[40] = "."
    /\ \E n \in 1..Len(processes) :
          /\ processes[n].pid = 5 /\ Len(processes[n].cmd) = 40
          /\ processes[n].cmd[40] = " "

----------------------------------------------------------------------------
(* getDiskInfo entry by entry (specification SpecDisk): diskls without     *)
(* arguments at the call of getDiskInfo() in printDiskInfo.                *)

InitDisk ==
    /\ IdleOs
    /\ IdleSysCpu
    /\ IdleDistro
    /\ IdleMount
    /\ tool = "diskls" /\ argv = <<>> /\ argi = 1 /\ tty = FALSE /\ use_colors = FALSE
    /\ show = [ s \in Selectors("diskls") |-> FALSE ]
    /\ absent = {}
    /\ out = <<>> /\ err = <<>> /\ sect = 1 /\ reached = << "printDiskInfo" >>
    /\ pc = "getDiskInfo" /\ exitCode = -1
    /\ IdleCpu /\ IdleNum /\ IdleMem /\ IdleProc
    /\ blockDir \in [ open : BOOLEAN, entries : BlockListings ]
    /\ diskIdx = 0 /\ disks = <<>>

(* one iteration of the loop: continue for loop* and ram*, else push_back *)
GetDiskInfoEntry ==
    /\ pc = "getDiskInfo" /\ blockDir.open /\ diskIdx < Len(blockDir.entries)
    /\ \E junk \in Junk : disks' = disks \o DiskEntry(blockDir.entries[diskIdx + 1], junk)
    /\ diskIdx' = diskIdx + 1
    /\ UNCHANGED <<osVars, sysCpuVars, distroVars, mountVars, cliVars, cpuVars, numVars, memVars, procVars, pc, exitCode, blockDir>>

(* fs::directory_iterator("/sys/block/") throws: the catch block writes    *)
(* the warning                                                             *)
GetDiskInfoCatch ==
    /\ pc = "getDiskInfo" /\ ~blockDir.open
    /\ err' = err \o colorize(<< "Warning: Could not read all disk information" >>, YELLOW)
    /\ pc' = "disksRead"
    /\ UNCHANGED <<osVars, sysCpuVars, distroVars, mountVars, tool, argv, argi, show, use_colors, tty, absent, out, sect, reached,
                   cpuVars, numVars, memVars, procVars, exitCode, diskVars>>

(* return disks; printDiskInfo prints the table *)
GetDiskInfoReturn ==
    /\ \/ pc = "disksRead"
       \/ pc = "getDiskInfo" /\ blockDir.open /\ diskIdx = Len(blockDir.entries)
    /\ out' = out \o printSeparator("Disk Information")
    /\ sect' = sect + 1
    /\ pc' = "run"
    /\ UNCHANGED <<osVars, sysCpuVars, distroVars, mountVars, tool, argv, argi, show, use_colors, tty, absent, err, reached, exitCode,
                   cpuVars, numVars, memVars, procVars, diskVars>>

NextDisk ==
    \/ GetDiskInfoEntry \/ GetDiskInfoCatch \/ GetDiskInfoReturn
    \/ SkipSection \/ MainReturn

SpecDisk == InitDisk /\ [][NextDisk]_vars

----------------------------------------------------------------------------
(* Properties of getDiskInfo (specification SpecDisk)                      *)

DisksReturned == pc \in { "run", "exited" }

(* the entries the iteration hands out *)
ListedEntries == IF blockDir.open THEN Range(blockDir.entries) ELSE {}

BeginsLoopOrRam(name) ==
    \/ Len(name) >= 4 /\ SubSeq(name, 1, 4) = << "l", "o", "o", "p" >>
    \/ Len(name) >= 3 /\ SubSeq(name, 1, 3) = << "r", "a", "m" >>

RecordsOf(e) == { i \in 1..Len(disks) : disks[i].device = DevPrefix \o e.name }

(* C13: getDiskInfo emits exactly one record for every entry of the        *)
(* block-device directory whose name does not begin with loop or ram, no   *)
(* record for an entry whose name does, and no other record.               *)
C13_DiskFilter ==
    DisksReturned =>
        /\ \A e \in ListedEntries :
              Cardinality(RecordsOf(e)) = IF BeginsLoopOrRam(e.name) THEN 0 ELSE 1
        /\ \A i \in 1..Len(disks) : \E e \in ListedEntries : i \in RecordsOf(e)

(* entries sda, loop0, nvme0n1: the two records /dev/sda and /dev/nvme0n1 *)
C13_Witness ==
    /\ DisksReturned
    /\ blockDir.open /\ blockDir.entries = << DiskSda, DiskLoop0, DiskNvme >>
    /\ Len(disks) = 2
    /\ disks[1].device = << "/", "d", "e", "v", "/", "s", "d", "a" >>
    /\ disks[2].device = << "/", "d", "e", "v", "/", "n", "v", "m", "e", "0", "n", "1" >>

(* the sector count the size file of an entry holds, -1 without a number *)
SectorCount(e) ==
    LET x == ExtractNumber(e.size.text)
    IN  IF e.size.open /\ x.state = "ok" THEN x.value ELSE -1

(* C14: for every emitted device size_bytes is the sector count of the     *)
(* size file times 512 in unsigned arithmetic of the width of size_bytes,  *)
(* size_bytes is a multiple of 512, and it is 0 when the size file is      *)
(* missing.                                                                *)
C14_SizeFromSectors ==
    DisksReturned =>
        \A e \in ListedEntries : \A i \in RecordsOf(e) :
            /\ disks[i].size_bytes % 512 = 0
            /\ ~e.size.open => disks[i].size_bytes = 0
            /\ SectorCount(e) >= 0 =>
                  disks[i].size_bytes = (SectorCount(e) * 512) % SizeModulus

(* a device of 2048 sectors, and one whose byte count wraps *)
C14_Witness ==
    /\ DisksReturned /\ blockDir.open
    /\ blockDir.entries = << DiskSda, DiskHuge, DiskBare >>
    /\ Len(disks) = 3
    /\ disks[1].size_bytes = 1048576
    /\ disks[2].size_bytes = 512
    /\ disks[3].size_bytes = 0

(* "1.0 KB" and so on *)
HumanSize(whole, unit) == ToChars(whole) \o << ".", "0", " ", unit >>

(* C15 as stated: a device whose size file holds 2048 is reported with     *)
(* 1024 bytes and the human-readable size 1 KiB, one whose size file holds *)
(* 4096 with 2048 bytes and 2 KiB.                                         *)
C15_SizeExampleKiB ==
    DisksReturned =>
        \A e \in ListedEntries : \A i \in RecordsOf(e) :
            /\ SectorCount(e) = 2048 =>
                  disks[i].size_bytes = 1024 /\ disks[i].size_human = HumanSize(1, "KB")
            /\ SectorCount(e) = 4096 =>
                  disks[i].size_bytes = 2048 /\ disks[i].size_human = HumanSize(2, "KB")

(* C15, amended: a device whose size file holds 2048 is reported with      *)
(* 2048 * 512 = 1048576 bytes and the human-readable size 1.0 MB, one      *)
(* whose size file holds 4096 with 2097152 bytes and 2.0 MB.               *)
C15_SizeExampleMiB ==
    DisksReturned =>
        \A e \in ListedEntries : \A i \in RecordsOf(e) :
            /\ SectorCount(e) = 2048 =>
                  disks[i].size_bytes = 1048576 /\ disks[i].size_human = HumanSize(1, "MB")
            /\ SectorCount(e) = 4096 =>
                  disks[i].size_bytes = 2097152 /\ disks[i].size_human = HumanSize(2, "MB")

C15_Witness ==
    /\ DisksReturned /\ blockDir.open
    /\ blockDir.entries = << DiskSda, DiskNvme >>
    /\ Len(disks) = 2
    /\ disks[1].size_human = << "1", ".", "0", " ", "MB" >>
    /\ disks[2].size_human = << "2", ".", "0", " ", "MB" >>

(* the flag the queue/rotational file of an entry states, -1 when the     *)
(* file holds no number                                                    *)
RotationalFlag(e) ==
    LET x == ExtractNumber(e.rotational.text)
    IN  IF x.state = "ok" THEN x.value ELSE -1

BeginsNvme(name) == Len(name) >= 4 /\ SubSeq(name, 1, 4) = << "n", "v", "m", "e" >>

(* C26: every emitted device whose name begins with nvme has type NVMe,   *)
(* whatever its rotational flag; any other device has type SSD when its   *)
(* queue/rotational file states 0, HDD when it states another flag, and   *)
(* is rotational with type HDD when that file is missing.                 *)
C26_DiskType ==
    \A e \in ListedEntries : \A i \in RecordsOf(e) :
        /\ BeginsNvme(e.name) => disks[i].type = "NVMe"
        /\ (~BeginsNvme(e.name) /\ ~e.rotational.open) =>
              disks[i].rotational /\ disks[i].type = "HDD"
        /\ (~BeginsNvme(e.name) /\ e.rotational.open /\ RotationalFlag(e) >= 0) =>
              disks[i].type = IF RotationalFlag(e) = 0 THEN "SSD" ELSE "HDD"

(* a rotational nvme device, a device with flag 1, one with flag 0 *)
C26_Witness ==
    /\ DisksReturned /\ blockDir.open
    /\ blockDir.entries = << DiskNvme, DiskSda, DiskHuge >>
    /\ Len(disks) = 3
    /\ disks[1].rotational /\ disks[1].type = "NVMe"
    /\ disks[2].type = "HDD" /\ disks[3].type = "SSD"

(* the scheduler the claim reads off a scheduler line *)
BracketedText(line) ==
    LET opens == { i \in 1..Len(line) : line[i] = "[" }
        shuts == { i \in 1..Len(line) : line[i] = "]" }
        start == CHOOSE i \in opens : \A j \in opens : i <= j
        end   == CHOOSE i \in shuts : \A j \in shuts : i <= j
    IN  IF opens = {} \/ shuts = {} THEN << >>
        ELSE IF end < start THEN << >>
        ELSE SubSeq(line, start + 1, end - 1)

(* C27 as stated: the scheduler of every emitted device whose scheduler   *)
(* file opens is the text strictly between the first `[` and the first    *)
(* `]` of the scheduler line, and empty when the line has no bracket,     *)
(* only one of the two, or its `]` before its `[`.                        *)
C27_SchedulerBetweenBrackets ==
    \A e \in ListedEntries : \A i \in RecordsOf(e) :
        e.scheduler.open => disks[i].scheduler = BracketedText(FirstLine(e.scheduler.text))

----------------------------------------------------------------------------
(* getPartitionInfo line by line (specification SpecMounts): diskls -u at  *)
(* the call of getPartitionInfo() in printUsageInfo.                       *)

InitMounts ==
    /\ IdleOs
    /\ IdleSysCpu
    /\ IdleDistro
    /\ tool = "diskls" /\ argv = << "-u" >> /\ argi = 2 /\ tty = FALSE /\ use_colors = FALSE
    /\ show = [ s \in Selectors("diskls") |-> s = "show_usage" ]
    /\ absent = {}
    /\ out = <<>> /\ err = <<>> /\ sect = 2
    /\ reached = << "printDiskInfo", "printUsageInfo" >>
    /\ pc = "getPartitionInfo" /\ exitCode = -1
    /\ IdleCpu /\ IdleNum /\ IdleMem /\ IdleProc /\ IdleDisk
    /\ mountsFile \in MountsFiles
    /\ mountIdx = 0 /\ partitions = <<>>

(* one iteration of the loop over the lines of the file *)
GetPartitionInfoLine ==
    /\ pc = "getPartitionInfo" /\ mountsFile.open /\ mountIdx < Len(mountsFile.lines)
    /\ \E st \in MountStatvfs :
          partitions' = partitions \o MountLine(mountsFile.lines[mountIdx + 1], st)
    /\ mountIdx' = mountIdx + 1
    /\ UNCHANGED <<osVars, sysCpuVars, distroVars, cliVars, cpuVars, numVars, memVars, procVars, diskVars, pc, exitCode,
                   mountsFile>>

(* getline fails (end of file, or the file did not open): return           *)
(* partitions; printUsageInfo prints the table                             *)
GetPartitionInfoReturn ==
    /\ pc = "getPartitionInfo"
    /\ mountsFile.open => mountIdx = Len(mountsFile.lines)
    /\ out' = out \o printSeparator("Disk Usage") \o
              (IF partitions = <<>> THEN << "No mounted partitions found" >>
               ELSE << "DEVICE" >> \o printSeparator(""))
    /\ sect' = sect + 1
    /\ pc' = "run"
    /\ UNCHANGED <<osVars, sysCpuVars, distroVars, tool, argv, argi, show, use_colors, tty, absent, err, reached, exitCode,
                   cpuVars, numVars, memVars, procVars, diskVars, mountVars>>

NextMounts ==
    \/ GetPartitionInfoLine \/ GetPartitionInfoReturn
    \/ SkipSection \/ MainReturn

SpecMounts == InitMounts /\ [][NextMounts]_vars

----------------------------------------------------------------------------
(* Properties of getPartitionInfo (specification SpecMounts)               *)

MountsReturned == pc \in { "run", "exited" }

(* the rows of the file: the lines that have a device, a mount point, a   *)
(* filesystem and options                                                  *)
MountRows ==
    IF mountsFile.open THEN SelectSeq(mountsFile.lines, FourFields) ELSE <<>>

KeptRow(row) ==
    /\ StartsWith(row[1], DevPrefix)
    /\ row[3] # << "p", "r", "o", "c" >>
    /\ row[3] # << "s", "y", "s", "f", "s" >>
    /\ row[3] # << "d", "e", "v", "t", "m", "p", "f", "s" >>
    /\ row[3] # << "t", "m", "p", "f", "s" >>

Emitted == [ i \in 1..Len(partitions) |->
               << partitions[i].device, partitions[i].mountpoint,
                  partitions[i].filesystem, partitions[i].mount_options >> ]

Expected == LET kept == SelectSeq(MountRows, KeptRow)
            IN  [ i \in 1..Len(kept) |-> SubSeq(kept[i], 1, 4) ]

(* C16: when getPartitionInfo has returned, the records it emitted are,   *)
(* in the order of the file, exactly the rows whose device starts with    *)
(* /dev/ and whose filesystem is none of proc, sysfs, devtmpfs, tmpfs.    *)
C16_MountsFilter == MountsReturned => Emitted = Expected

(* the example: rows /dev/sda1 ext4, proc, /dev/sdb2 xfs, tmpfs give the  *)
(* mounts sda1 and sdb2                                                    *)
C16_Witness ==
    /\ MountsReturned
    /\ mountsFile.open
    /\ mountsFile.lines = << MountSda1, MountProc, MountSdb2, MountTmpfs >>
    /\ Len(partitions) = 2
    /\ partitions[1].device = MountSda1[1]
    /\ partitions[2].device = MountSdb2[1]

----------------------------------------------------------------------------
(* getDistroInfo line by line (specification SpecDistro): osinfo without   *)
(* arguments at the call of getDistroInfo() in printSystemInfo.            *)

InitDistro ==
    /\ IdleOs
    /\ IdleSysCpu
    /\ tool = "osinfo" /\ argv = <<>> /\ argi = 1 /\ tty = FALSE /\ use_colors = FALSE
    /\ show = [ s \in Selectors("osinfo") |-> FALSE ]
    /\ absent = {}
    /\ out = <<>> /\ err = <<>> /\ sect = 1 /\ reached = << "printSystemInfo" >>
    /\ pc = "getDistroInfo" /\ exitCode = -1
    /\ IdleCpu /\ IdleNum /\ IdleMem /\ IdleProc /\ IdleDisk /\ IdleMount
    /\ osRelease \in OsReleaseFiles
    /\ osIdx = 0 /\ distro = NewDistroInfo

(* one iteration of the loop; the abort of the library assertion ends the  *)
(* process with SIGABRT (status 134)                                       *)
GetDistroInfoLine ==
    /\ pc = "getDistroInfo" /\ osRelease.open /\ osIdx < Len(osRelease.lines)
    /\ \E aborts \in BOOLEAN :
          LET r == DistroLine(distro, osRelease.lines[osIdx + 1], aborts)
          IN  /\ distro' = r.info
              /\ pc' = IF r.abort THEN "exited" ELSE pc
              /\ exitCode' = IF r.abort THEN 134 ELSE exitCode
    /\ osIdx' = osIdx + 1
    /\ UNCHANGED <<osVars, sysCpuVars, cliVars, cpuVars, numVars, memVars, procVars, diskVars, mountVars,
                   osRelease>>

(* getline fails (end of file, or the file did not open): return info;     *)
(* printSystemInfo prints the section                                      *)
GetDistroInfoReturn ==
    /\ pc = "getDistroInfo"
    /\ osRelease.open => osIdx = Len(osRelease.lines)
    /\ out' = out \o printSeparator("System Information")
    /\ sect' = sect + 1
    /\ pc' = "run"
    /\ UNCHANGED <<osVars, sysCpuVars, tool, argv, argi, show, use_colors, tty, absent, err, reached, exitCode,
                   cpuVars, numVars, memVars, procVars, diskVars, mountVars, distroVars>>

NextDistro ==
    \/ GetDistroInfoLine \/ GetDistroInfoReturn
    \/ SkipSection \/ MainReturn

SpecDistro == InitDistro /\ [][NextDistro]_vars

----------------------------------------------------------------------------
(* Properties of getDistroInfo (specification SpecDistro)                  *)

(* the lines getline has handed out *)
LinesRead == SubSeq(osRelease.lines, 1, osIdx)

KeyOf(line)   == SubSeq(line, 1, FindEquals(line) - 1)
ValueOf(line) == SubSeq(line, FindEquals(line) + 1, Len(line))

(* a value that both begins and ends with a double quote, without them *)
Unquoted(value) ==
    IF value # << >> /\ Head(value) = Quote /\ value[Len(value)] = Quote
    THEN SubSeq(value, 2, Len(value) - 1)
    ELSE value

(* what the claim has in a member after the lines read: the value of the   *)
(* last line KEY=VALUE with the member's key, unquoted; empty without one  *)
ExpectedField(i) ==
    LET at == { n \in 1..osIdx : /\ FindEquals(LinesRead[n]) # 0
                                 /\ KeyOf(LinesRead[n]) = DistroKeys[i].key }
    IN  IF at = {} THEN << >>
        ELSE Unquoted(ValueOf(LinesRead[CHOOSE n \in at : \A k \in at : k <= n]))

(* C18: after every line read, each member of the DistroInfo holds the    *)
(* VALUE of the last line with its key, without one leading and one       *)
(* trailing double quote when it has both and unchanged (also when empty) *)
(* otherwise; lines with other keys change nothing.                       *)
C18_QuotesRemoved ==
    \A i \in 1..Len(DistroKeys) : distro[DistroKeys[i].field] = ExpectedField(i)

----------------------------------------------------------------------------
(* getCpuFrequencies entry by entry (specification SpecFreq): cpuinfo -f   *)
(* at the call of getCpuFrequencies() in printFrequencyInfo.               *)

InitFreq ==
    /\ IdleOs
    /\ tool = "cpuinfo" /\ argv = << "-f" >> /\ argi = 2 /\ tty = FALSE /\ use_colors = FALSE
    /\ show = [ s \in Selectors("cpuinfo") |-> s = "show_frequencies" ]
    /\ absent = {}
    /\ out = <<>> /\ err = <<>> /\ sect = 3
    /\ reached = << "printGeneralInfo", "printFrequencyInfo" >>
    /\ pc = "getCpuFrequencies" /\ exitCode = -1
    /\ IdleCpu /\ IdleNum /\ IdleMem /\ IdleProc /\ IdleDisk /\ IdleMount /\ IdleDistro
    /\ cpuDir \in [ open : BOOLEAN, entries : CpuDirListings ]
    /\ cpuIdx = 0 /\ frequencies = <<>> /\ sockets = <<>> /\ cores = <<>>

(* one iteration of the loop: continue, or push_back and break *)
GetCpuFrequenciesEntry ==
    /\ pc = "getCpuFrequencies" /\ cpuDir.open /\ cpuIdx < Len(cpuDir.entries)
    /\ LET r == FrequencyEntry(cpuDir.entries[cpuIdx + 1])
       IN  /\ frequencies' = frequencies \o r.push
           /\ pc' = IF r.stop THEN "frequenciesRead" ELSE pc
    /\ cpuIdx' = cpuIdx + 1
    /\ UNCHANGED <<osVars, cliVars, cpuVars, numVars, memVars, procVars, diskVars, mountVars,
                   distroVars, exitCode, cpuDir, sockets, cores>>

(* fs::directory_iterator throws: catch (const std::exception&) { } *)
GetCpuFrequenciesCatch ==
    /\ pc = "getCpuFrequencies" /\ ~cpuDir.open
    /\ pc' = "frequenciesRead"
    /\ UNCHANGED <<osVars, cliVars, cpuVars, numVars, memVars, procVars, diskVars, mountVars,
                   distroVars, sysCpuVars, exitCode>>

(* return frequencies; printFrequencyInfo prints the section *)
GetCpuFrequenciesReturn ==
    /\ \/ pc = "frequenciesRead"
       \/ pc = "getCpuFrequencies" /\ cpuDir.open /\ cpuIdx = Len(cpuDir.entries)
    /\ out' = out \o printSeparator("CPU Frequency") \o
              (IF frequencies # <<>> THEN << "Current:" >>
               ELSE colorize(<< "Warning: CPU frequency information not available" >>, YELLOW))
    /\ sect' = sect + 1
    /\ pc' = "run"
    /\ UNCHANGED <<osVars, tool, argv, argi, show, use_colors, tty, absent, err, reached, exitCode,
                   cpuVars, numVars, memVars, procVars, diskVars, mountVars, distroVars,
                   sysCpuVars>>

NextFreq ==
    \/ GetCpuFrequenciesEntry \/ GetCpuFrequenciesCatch \/ GetCpuFrequenciesReturn
    \/ SkipSection \/ MainReturn

SpecFreq == InitFreq /\ [][NextFreq]_vars

----------------------------------------------------------------------------
(* Properties of getCpuFrequencies (specification SpecFreq)                *)

FrequenciesReturned == pc \in { "run", "exited" }

(* a name that is cpu followed by a decimal digit *)
CpuDigitName(name) ==
    /\ Len(name) >= 4
    /\ SubSeq(name, 1, 3) = << "c", "p", "u" >>
    /\ name[4] \in Digits

(* the enumerated entries named cpu<digit> that have a cpufreq directory *)
FrequencySources ==
    IF cpuDir.open
    THEN { i \in 1..Len(cpuDir.entries) :
             CpuDigitName(cpuDir.entries[i].name) /\ cpuDir.entries[i].cpufreq }
    ELSE {}

----------------------------------------------------------------------------
(* getEnvironmentInfo variable by variable (specification SpecEnv):        *)
(* osinfo -e, run() has entered printEnvironmentInfo.                      *)

Environments ==
    { [ n \in EnvNames |->
          CASE n = "PATH"                -> SetTo(EnvText("PATH"))
            [] n = "LANG"                -> lang
            [] n = "EDITOR"              -> editor
            [] n = "DESKTOP_SESSION"     -> session
            [] n = "XDG_CURRENT_DESKTOP" -> xdg
            [] n = "WINDOWMANAGER"       -> wm
            [] OTHER                     -> Unset ] :
        lang    \in { Unset, SetTo(EnvText("LANG")) },
        editor  \in { Unset, SetTo(EnvText("EDITOR")) },
        session \in EnvValues("DESKTOP_SESSION"),
        xdg     \in EnvValues("XDG_CURRENT_DESKTOP"),
        wm      \in EnvValues("WINDOWMANAGER") }

InitEnv ==
    /\ tool = "osinfo" /\ argv = << "-e" >> /\ argi = 2 /\ tty = FALSE /\ use_colors = FALSE
    /\ show = [ s \in Selectors("osinfo") |-> s = "show_environment" ]
    /\ absent = {}
    /\ out = <<>> /\ err = <<>> /\ sect = 4
    /\ reached = << "printSystemInfo", "printEnvironmentInfo" >>
    /\ pc = "getEnvironmentInfo" /\ exitCode = -1
    /\ IdleCpu /\ IdleNum /\ IdleMem /\ IdleProc /\ IdleDisk /\ IdleMount /\ IdleDistro
    /\ IdleSysCpu /\ IdleSys
    /\ environ \in Environments
    /\ envIdx = 0 /\ env_info = NewEnvironmentInfo

(* one iteration of  for (const char* var : env_vars) *)
GetEnvironmentInfoVar ==
    /\ pc = "getEnvironmentInfo" /\ envIdx < Len(env_vars)
    /\ env_info' = EnvVar(env_info, env_vars[envIdx + 1], environ[env_vars[envIdx + 1]])
    /\ envIdx' = envIdx + 1
    /\ UNCHANGED <<cliVars, cpuVars, numVars, memVars, procVars, diskVars, mountVars,
                   distroVars, sysCpuVars, pc, exitCode, environ, timezoneFile, kernel,
                   sys_info>>

(* return info; printEnvironmentInfo prints the section *)
GetEnvironmentInfoReturn ==
    /\ pc = "getEnvironmentInfo" /\ envIdx = Len(env_vars)
    /\ out' = out \o printSeparator("Environment Information") \o
              (IF env_info.lang # << >> THEN << "Language:" >> ELSE << >>) \o
              (IF env_info.desktop_session # << >> THEN << "Desktop session:" >> ELSE << >>) \o
              (IF env_info.window_manager # << >> THEN << "Desktop environment:" >> ELSE << >>) \o
              (IF env_info.editor # << >> THEN << "Default editor:" >> ELSE << >>)
    /\ sect' = sect + 1
    /\ pc' = "run"
    /\ UNCHANGED <<tool, argv, argi, show, use_colors, tty, absent, err, reached, exitCode,
                   cpuVars, numVars, memVars, procVars, diskVars, mountVars, distroVars,
                   sysCpuVars, osVars>>

NextEnv ==
    \/ GetEnvironmentInfoVar \/ GetEnvironmentInfoReturn
    \/ MainReturn

SpecEnv == InitEnv /\ [][NextEnv]_vars

----------------------------------------------------------------------------
(* Properties of getEnvironmentInfo (specification SpecEnv)                *)

EnvironmentReturned == pc # "getEnvironmentInfo"

(* C28: window_manager is the value of XDG_CURRENT_DESKTOP whenever that   *)
(* variable is present in the environment; it is the value of              *)
(* WINDOWMANAGER only when XDG_CURRENT_DESKTOP is not present and          *)
(* WINDOWMANAGER is; with neither present the field is empty.              *)
C28_WindowManager ==
    EnvironmentReturned =>
        env_info.window_manager =
            IF environ["XDG_CURRENT_DESKTOP"].set THEN environ["XDG_CURRENT_DESKTOP"].value
            ELSE IF environ["WINDOWMANAGER"].set THEN environ["WINDOWMANAGER"].value
            ELSE << >>

----------------------------------------------------------------------------
(* getSystemInfo (specification SpecSys): osinfo without arguments,        *)
(* run() has entered printSystemInfo, which calls getSystemInfo and then   *)
(* getDistroInfo.                                                          *)

InitSys ==
    /\ tool = "osinfo" /\ argv = <<>> /\ argi = 1 /\ tty = FALSE /\ use_colors = FALSE
    /\ show = [ s \in Selectors("osinfo") |-> FALSE ]
    /\ absent = {}
    /\ out = <<>> /\ err = <<>> /\ sect = 1 /\ reached = << "printSystemInfo" >>
    /\ pc = "getSystemInfo" /\ exitCode = -1
    /\ IdleCpu /\ IdleNum /\ IdleMem /\ IdleProc /\ IdleDisk /\ IdleMount /\ IdleSysCpu
    /\ IdleEnv
    /\ osRelease \in { [ open |-> FALSE, lines |-> << >> ],
                       [ open |-> TRUE, lines |-> << OsName >> ] }
    /\ osIdx = 0 /\ distro = NewDistroInfo
    /\ environ \in { [ NoEnvironment EXCEPT !["TZ"] = tz ] : tz \in EnvValues("TZ") }
    /\ timezoneFile \in TimezoneFiles
    /\ kernel \in Kernels
    /\ sys_info = NewSystemInfo

(* the whole of getSystemInfo: uname, getdomainname, sysinfo, timezone *)
GetSystemInfo ==
    /\ pc = "getSystemInfo"
    /\ sys_info' = SystemInfoOf(kernel, timezoneFile, environ["TZ"])
    /\ pc' = "getDistroInfo"
    /\ UNCHANGED <<tool, argv, argi, show, use_colors, tty, absent, out, err, sect, reached,
                   exitCode, cpuVars, numVars, memVars, procVars, diskVars, mountVars,
                   distroVars, sysCpuVars, environ, timezoneFile, kernel, envIdx, env_info>>

NextSys ==
    \/ GetSystemInfo
    \/ GetDistroInfoLine \/ GetDistroInfoReturn
    \/ SkipSection \/ MainReturn

SpecSys == InitSys /\ [][NextSys]_vars

----------------------------------------------------------------------------
(* Properties of getSystemInfo (specification SpecSys)                     *)

SystemInfoReturned == pc # "getSystemInfo"

(* the value each source of the timezone yields; none is the empty text *)
FileYields == IF timezoneFile.open THEN FirstLine(timezoneFile.text) ELSE << >>
TzYields   == IF environ["TZ"].set THEN environ["TZ"].value ELSE << >>

(* C29: timezone is the first line of the timezone file when the file      *)
(* yields a value, otherwise the value of TZ when TZ is set; it is empty   *)
(* only when neither source yields a value.                                *)
C29_TimezoneFallback ==
    SystemInfoReturned =>
        /\ sys_info.timezone = IF FileYields # << >> THEN FileYields ELSE TzYields
        /\ sys_info.timezone = << >> => (FileYields = << >> /\ TzYields = << >>)

----------------------------------------------------------------------------
(* printTopologyInfo entry by entry (specification SpecTopo): cpuinfo -t   *)
(* with or without -d, run() has entered printTopologyInfo.                *)
(*                                                                         *)
(* A std::map<int, std::vector<int>> is the sequence of its elements in    *)
(* key order, each [key, cpus]; size() is its length.                      *)

PushCpu_Front(map, id, cpu) ==
    IF \E i \in 1..Len(map) : map[i].key = id
    THEN [ i \in 1..Len(map) |->
             IF map[i].key = id THEN [ map[i] EXCEPT !.cpus = << cpu >> \o @ ] ELSE map[i] ]
    ELSE SelectSeq(map, LAMBDA r : r.key < id) \o << [ key |-> id, cpus |-> << cpu >> ] >> \o
         SelectSeq(map, LAMBDA r : r.key > id)

(* map[id].push_back(cpu) *)
PushCpu(map, id, cpu) ==
    IF \E i \in 1..Len(map) : map[i].key = id
    THEN [ i \in 1..Len(map) |->
             IF map[i].key = id THEN [ map[i] EXCEPT !.cpus = Append(@, cpu) ] ELSE map[i] ]
    ELSE SelectSeq(map, LAMBDA r : r.key < id) \o << [ key |-> id, cpus |-> << cpu >> ] >> \o
         SelectSeq(map, LAMBDA r : r.key > id)

(* std::stoi(dirname.substr(3)) *)
CpuNum(dirname) == stoi(SubSeq(dirname, 4, Len(dirname)))

(* the body of the loop for one entry: the maps after it *)
TopologyEntry(s, c, entry) ==
    IF SkippedCpuEntry(entry.name) THEN [ sockets |-> s, cores |-> c ]
    ELSE [ sockets |-> IF entry.physical_package_id.open
                       THEN PushCpu(s, entry.physical_package_id.id, CpuNum(entry.name))
                       ELSE s,
           cores   |-> IF entry.core_id.open
                       THEN PushCpu(c, entry.core_id.id, CpuNum(entry.name))
                       ELSE c ]

(* cores.size() / (sockets.empty() ? 1 : sockets.size()) *)
CoresPerSocket(s, c) == Len(c) \div (IF s = << >> THEN 1 ELSE Len(s))

RECURSIVE CpuList(_)
(* the cpu numbers of one socket, separated by ", " *)
CpuList(cpus) ==
    IF cpus = << >> THEN << >>
    ELSE IF Len(cpus) = 1 THEN << ToString(cpus[1]) >>
    ELSE << ToString(cpus[1]), ", " >> \o CpuList(Tail(cpus))

RECURSIVE SocketLines(_)
(* for (const auto& socket : sockets): "Socket <id>: CPUs <list>" *)
SocketLines(s) ==
    IF s = << >> THEN << >>
    ELSE << "Socket ", ToString(s[1].key), ": CPUs " >> \o CpuList(s[1].cpus) \o
         SocketLines(Tail(s))

TopologyReport(s, c, detailed) ==
    << "Sockets:", ToString(Len(s)), "Cores per socket:", ToString(CoresPerSocket(s, c)) >> \o
    (IF detailed THEN SocketLines(s) ELSE << >>)

InitTopo ==
    /\ tool = "cpuinfo" /\ tty = FALSE /\ use_colors = FALSE
    /\ \E detailed \in BOOLEAN :
          /\ argv = IF detailed THEN << "-t", "-d" >> ELSE << "-t" >>
          /\ show = [ s \in Selectors("cpuinfo") |->
                        s = "show_topology" \/ (detailed /\ s = "show_detailed") ]
    /\ argi = Len(argv) + 1
    /\ absent = {}
    /\ out = <<>> /\ err = <<>> /\ sect = 4
    /\ reached = << "printGeneralInfo", "printTopologyInfo" >>
    /\ pc = "printTopologyInfo" /\ exitCode = -1
    /\ IdleCpu /\ IdleNum /\ IdleMem /\ IdleProc /\ IdleDisk /\ IdleMount /\ IdleDistro
    /\ IdleOs
    /\ cpuDir \in [ open : BOOLEAN, entries : CpuDirListings ]
    /\ cpuIdx = 0 /\ frequencies = <<>> /\ sockets = <<>> /\ cores = <<>>

(* one iteration of the loop over the directory *)
PrintTopologyInfoEntry ==
    /\ pc = "printTopologyInfo" /\ cpuDir.open /\ cpuIdx < Len(cpuDir.entries)
    /\ LET r == TopologyEntry(sockets, cores, cpuDir.entries[cpuIdx + 1])
       IN  sockets' = r.sockets /\ cores' = r.cores
    /\ cpuIdx' = cpuIdx + 1
    /\ UNCHANGED <<cliVars, cpuVars, numVars, memVars, procVars, diskVars, mountVars,
                   distroVars, osVars, pc, exitCode, cpuDir, frequencies>>

(* fs::directory_iterator throws: the catch block prints the warning *)
PrintTopologyInfoCatch ==
    /\ pc = "printTopologyInfo" /\ ~cpuDir.open
    /\ out' = out \o printSeparator("CPU Topology") \o
              colorize(<< "Warning: Could not read topology information" >>, YELLOW)
    /\ sect' = sect + 1
    /\ pc' = "run"
    /\ UNCHANGED <<tool, argv, argi, show, use_colors, tty, absent, err, reached, exitCode,
                   cpuVars, numVars, memVars, procVars, diskVars, mountVars, distroVars,
                   osVars, sysCpuVars>>

(* the loop is over: the counts and, with show_detailed, the sockets *)
PrintTopologyInfoReturn ==
    /\ pc = "printTopologyInfo" /\ cpuDir.open /\ cpuIdx = Len(cpuDir.entries)
    /\ out' = out \o printSeparator("CPU Topology") \o
              TopologyReport(sockets, cores, show["show_detailed"])
    /\ sect' = sect + 1
    /\ pc' = "run"
    /\ UNCHANGED <<tool, argv, argi, show, use_colors, tty, absent, err, reached, exitCode,
                   cpuVars, numVars, memVars, procVars, diskVars, mountVars, distroVars,
                   osVars, sysCpuVars>>

NextTopo ==
    \/ PrintTopologyInfoEntry \/ PrintTopologyInfoCatch \/ PrintTopologyInfoReturn
    \/ MainReturn

SpecTopo == InitTopo /\ [][NextTopo]_vars

----------------------------------------------------------------------------
(* Properties of printTopologyInfo (specification SpecTopo)                *)

TopologyPrinted == pc # "printTopologyInfo"

(* the entries the directory hands out: none when it cannot be read *)
ListedCpuEntries == IF cpuDir.open THEN cpuDir.entries ELSE << >>

(* the cpu<digits> entries whose topology file opens *)
PackageEntries ==
    SelectSeq(ListedCpuEntries,
              LAMBDA e : CpuDigitName(e.name) /\ e.physical_package_id.open)
CoreEntries ==
    SelectSeq(ListedCpuEntries, LAMBDA e : CpuDigitName(e.name) /\ e.core_id.open)

PackageIds == { e.physical_package_id.id : e \in Range(PackageEntries) }
CoreIds    == { e.core_id.id : e \in Range(CoreEntries) }

SocketCount == Cardinality(PackageIds)
CoresPerSocketCount ==
    Cardinality(CoreIds) \div (IF SocketCount > 1 THEN SocketCount ELSE 1)

(* the cpu numbers of the entries of one package, in order of discovery *)
CpusOfPackage(id) ==
    LET es == SelectSeq(PackageEntries, LAMBDA e : e.physical_package_id.id = id)
    IN  [ i \in 1..Len(es) |-> stoi(SubSeq(es[i].name, 4, Len(es[i].name))) ]

(* the tokens printed after the separator *)
TopologyOutput ==
    SubSeq(out, Len(printSeparator("CPU Topology")) + 1, Len(out))

CountsReported ==
    /\ Len(TopologyOutput) >= 4
    /\ SubSeq(TopologyOutput, 1, 4) =
          << "Sockets:", ToString(SocketCount),
             "Cores per socket:", ToString(CoresPerSocketCount) >>

SocketListsInOrder ==
    /\ { sockets[i].key : i \in 1..Len(sockets) } = PackageIds
    /\ \A i \in 1..Len(sockets) : sockets[i].cpus = CpusOfPackage(sockets[i].key)
    /\ show["show_detailed"] =>
          SubSeq(TopologyOutput, 5, Len(TopologyOutput)) = SocketLines(sockets)

C30_WitnessNone ==
    /\ TopologyPrinted /\ cpuDir.open /\ cpuDir.entries = << Cpu3, CpuFreq >>
    /\ TopologyOutput = << "Sockets:", "0", "Cores per socket:", "0" >>

====
